---- MODULE Spec2Model ----
(***************************************************************************)
(* Clean-City: the cleanup planner (src/tools/cleanup_planner_tool.py),    *)
(* the narrative generator it consults (src/llm_client.py), the event      *)
(* store (src/tools/history_tool.py), the report generator                 *)
(* (src/tools/report_generator_tool.py), the workflow of one image         *)
(* (src/agents/planner_agent.py) and the MCP server (src/mcp_server.py).   *)
(*                                                                         *)
(* A Detection is a record [label, score]; score is a confidence in        *)
(* percent.  The bbox of a Detection is read by no code modelled here.     *)
(* Python's None is the string "None".  A text value (a Python str or      *)
(* None) is a record of one fixed shape, see Lit, NoneText and             *)
(* _generate_action_summary, so that any two texts can be compared.        *)
(***************************************************************************)
EXTENDS Integers, Sequences, FiniteSets, TLC

VARIABLES
    pc,           \* "idle": no call in progress; "done": a call has returned
    _llm_client,  \* llm_client._llm_client: "None", or the provider of the singleton
    call,         \* the arguments and the environment of the last plan_cleanup call
    result,       \* what that call gave its caller: [exc, plan, llm_calls]
    events,       \* the rows of the table events of trash_events.db, in rowid order
    sqlite_sequence, \* the AUTOINCREMENT counter SQLite keeps for the table
    now,          \* the wall clock datetime.now() reads, in days
    last,         \* the last call to the store: [op, args, ret]
    before,       \* the rows of the table when that call began
    issued,       \* the ids log_event has returned so far, in call order
    handlers      \* the request handlers that use the store concurrently:
                  \* for each its position in the call it runs, the
                  \* arguments and the local variables of that call

plannerVars == <<_llm_client, call, result>>

storeVars == <<events, sqlite_sequence, now, last, before, issued>>

vars == <<pc, plannerVars, storeVars, handlers>>

(***************************************************************************)
(* Bounds of the model.                                                    *)
(***************************************************************************)
MaxDetections == 16

(***************************************************************************)
(* The label vocabulary is open (a label is whatever name the detection    *)
(* model gives a class); these seven labels stand for it: six the code     *)
(* names and "broken_glass".  The tuple is in Python's string order, which *)
(* sorted() uses.                                                          *)
(***************************************************************************)
LabelNames ==
    <<"aluminum_can", "broken_glass", "cigarette_butt", "food_wrapper",
      "glass_bottle", "paper_cup", "plastic_bottle">>

Labels == {LabelNames[i] : i \in DOMAIN LabelNames}

Rank(label) == CHOOSE i \in DOMAIN LabelNames : LabelNames[i] = label

Scores == <<50, 90>>

Locations == {"None", "Main St"}

NotesValues == {"None", "near the playground"}

(***************************************************************************)
(* The detection lists the detector hands over: n detections that cycle    *)
(* through k labels, starting at label r + 1 of LabelNames: at            *)
(* "broken_glass", at "cigarette_butt" or at "glass_bottle".               *)
(***************************************************************************)
MkDetections(n, k, r) ==
    [i \in 1..n |->
        [label |-> LabelNames[((((i - 1) % k) + r) % Len(LabelNames)) + 1],
         score |-> Scores[(i % 2) + 1]]]

Rotations == {1, 2, 4}

DetectionLists ==
    {MkDetections(n, k, r) : n \in 0..MaxDetections,
                             k \in 1..Len(LabelNames),
                             r \in Rotations}

(***************************************************************************)
(* Text values.                                                            *)
(***************************************************************************)
NoArgs ==
    [severity |-> "", count |-> 0, category_list |-> <<>>, others |-> 0,
     volunteers |-> 0, time_minutes |-> 0]

\* a Python str with fixed content
Lit(s) == [none |-> FALSE, text |-> s, args |-> NoArgs]

\* Python's None where a str is expected
NoneText == [none |-> TRUE, text |-> "", args |-> NoArgs]

\* Python truthiness of a str-or-None value
Truthy(t) == ~t.none /\ t.text # ""

Upper(s) ==
    CASE s = "high" -> "HIGH"
      [] s = "medium" -> "MEDIUM"
      [] s = "low" -> "LOW"
      [] OTHER -> s

\* sorted(categories): the labels of a set in string order
RECURSIVE SortedSeq(_)
SortedSeq(S) ==
    IF S = {} THEN <<>>
    ELSE LET m == CHOOSE x \in S : \A y \in S : Rank(x) <= Rank(y)
         IN <<m>> \o SortedSeq(S \ {m})

\* seq[:n]
Take(seq, n) == SubSeq(seq, 1, IF Len(seq) < n THEN Len(seq) ELSE n)

RECURSIVE SumScores(_)
SumScores(detections) ==
    IF detections = <<>> THEN 0
    ELSE Head(detections).score + SumScores(Tail(detections))

(***************************************************************************)
(* cleanup_planner_tool._generate_action_summary: the template render, as  *)
(* the values it interpolates into the fixed text.                         *)
(***************************************************************************)
_generate_action_summary(severity, volunteers, time_minutes, count, categories) ==
    [none |-> FALSE,
     text |-> "**Cleanup Plan - {severity} Priority** ...",
     args |-> [severity |-> Upper(severity),
               count |-> count,
               category_list |-> Take(SortedSeq(categories), 3),
               others |-> IF Cardinality(categories) > 3
                          THEN Cardinality(categories) - 3 ELSE 0,
               volunteers |-> volunteers,
               time_minutes |-> time_minutes]]

(***************************************************************************)
(* llm_client.py.  What the process environment and the provider do is     *)
(* outside the program; a call draws it as env:                            *)
(*   GEMINI_API_KEY  whether that variable is set                          *)
(*   LLM_PROVIDER    the provider named in the environment                 *)
(*   API_KEY         whether the API key of LLM_PROVIDER is set            *)
(*   sdk             "ok", "ImportError" (package not installed) or        *)
(*                   "error" (the SDK's constructor raises)                *)
(*   api             what the provider's API call does: "text" (a          *)
(*                   non-empty completion), "empty" (an empty string),     *)
(*                   "malformed" (a response without content) or "raise"   *)
(*                   (an exception; a timeout is one)                      *)
(* An exception is a value: exc is "none" or the name of what was raised.  *)
(***************************************************************************)
Providers == {"offline", "anthropic", "openai", "gemini"}

SdkStates == {"ok", "ImportError", "error"}

ApiOutcomes == {"text", "empty", "malformed", "raise"}

\* LLMClient.__init__ and _initialize_client: the provider the client ends with
_initialize_client(env) ==
    IF env.LLM_PROVIDER \in {"anthropic", "openai", "gemini"}
    THEN IF env.API_KEY
         THEN CASE env.sdk = "ok" -> [exc |-> "none", provider |-> env.LLM_PROVIDER]
                [] env.sdk = "ImportError" -> [exc |-> "none", provider |-> "offline"]
                [] OTHER -> [exc |-> "Exception", provider |-> "None"]
         ELSE [exc |-> "none", provider |-> "offline"]
    ELSE [exc |-> "none", provider |-> "offline"]

\* get_llm_client: the singleton, built on first use and kept
get_llm_client(client, env) ==
    IF client = "None"
    THEN LET c == _initialize_client(env)
         IN [exc |-> c.exc, client |-> IF c.exc = "none" THEN c.provider ELSE "None"]
    ELSE [exc |-> "none", client |-> client]

\* LLMClient._offline_response; a prompt carries the set of the words it contains
_offline_response(prompt) ==
    IF "cleanup" \in prompt.words \/ "plan" \in prompt.words
    THEN Lit("Based on the detected trash, here's a recommended cleanup plan: ...")
    ELSE IF "report" \in prompt.words
    THEN Lit("**Trash Cleanup Report** ...")
    ELSE IF "severity" \in prompt.words \/ "analyze" \in prompt.words
    THEN Lit("Based on the number and type of trash items detected, ...")
    ELSE Lit("I've analyzed the image and detected several trash items. ...")

\* LLMClient._anthropic_generate: response.content[0].text
_anthropic_generate(env) ==
    CASE env.api = "text" -> [exc |-> "none", text |-> Lit("<completion>")]
      [] env.api = "empty" -> [exc |-> "none", text |-> Lit("")]
      [] env.api = "malformed" -> [exc |-> "IndexError", text |-> NoneText]
      [] OTHER -> [exc |-> "Exception", text |-> NoneText]

\* LLMClient._openai_generate: response.choices[0].message.content
_openai_generate(env) ==
    CASE env.api = "text" -> [exc |-> "none", text |-> Lit("<completion>")]
      [] env.api = "empty" -> [exc |-> "none", text |-> Lit("")]
      [] env.api = "malformed" -> [exc |-> "none", text |-> NoneText]
      [] OTHER -> [exc |-> "Exception", text |-> NoneText]

\* LLMClient._gemini_generate: response.text
_gemini_generate(env) ==
    CASE env.api = "text" -> [exc |-> "none", text |-> Lit("<completion>")]
      [] env.api = "empty" -> [exc |-> "none", text |-> Lit("")]
      [] env.api = "malformed" -> [exc |-> "ValueError", text |-> NoneText]
      [] OTHER -> [exc |-> "Exception", text |-> NoneText]

\* LLMClient.generate_text of a client with this provider
LLMClient_generate_text(provider, prompt, env) ==
    IF provider = "offline"
    THEN _offline_response(prompt)
    ELSE LET r == CASE provider = "anthropic" -> _anthropic_generate(env)
                    [] provider = "openai" -> _openai_generate(env)
                    [] OTHER -> _gemini_generate(env)
         IN IF r.exc # "none" THEN _offline_response(prompt) ELSE r.text

\* llm_client.generate_text, the module's convenience function
generate_text(client, prompt, env) ==
    LET c == get_llm_client(client, env)
    IN IF c.exc # "none"
       THEN [exc |-> c.exc, text |-> NoneText, client |-> c.client]
       ELSE [exc |-> "none",
             text |-> LLMClient_generate_text(c.client, prompt, env),
             client |-> c.client]

(***************************************************************************)
(* cleanup_planner_tool.py                                                 *)
(***************************************************************************)
\* set(d["label"] for d in detections)
CategoriesOf(detections) == {detections[i].label : i \in DOMAIN detections}

\* Classify with the category rule of the high tier off by one (> 6 for >= 6)
Classify_StrictCategories(count, ncategories) ==
    IF count >= 15 \/ ncategories > 6
    THEN [severity |-> "high", urgency_days |-> 1,
          volunteers |-> 4 + (count \div 10),
          time_estimate |-> 90 + (count * 3)]
    ELSE IF count >= 7 \/ ncategories >= 4
    THEN [severity |-> "medium", urgency_days |-> 3,
          volunteers |-> 2 + (count \div 8),
          time_estimate |-> 45 + (count * 2)]
    ELSE [severity |-> "low", urgency_days |-> 7,
          volunteers |-> 1 + (count \div 5),
          time_estimate |-> 20 + (count * 2)]

\* Classify with the divisor of the high tier used in the medium tier too
Classify_SharedDivisor(count, ncategories) ==
    IF count >= 15 \/ ncategories >= 6
    THEN [severity |-> "high", urgency_days |-> 1,
          volunteers |-> 4 + (count \div 10),
          time_estimate |-> 90 + (count * 3)]
    ELSE IF count >= 7 \/ ncategories >= 4
    THEN [severity |-> "medium", urgency_days |-> 3,
          volunteers |-> 2 + (count \div 10),
          time_estimate |-> 45 + (count * 2)]
    ELSE [severity |-> "low", urgency_days |-> 7,
          volunteers |-> 1 + (count \div 5),
          time_estimate |-> 20 + (count * 2)]

\* Classify with the urgency of the high and the low tier exchanged
Classify_UrgencySwapped(count, ncategories) ==
    IF count >= 15 \/ ncategories >= 6
    THEN [severity |-> "high", urgency_days |-> 7,
          volunteers |-> 4 + (count \div 10),
          time_estimate |-> 90 + (count * 3)]
    ELSE IF count >= 7 \/ ncategories >= 4
    THEN [severity |-> "medium", urgency_days |-> 3,
          volunteers |-> 2 + (count \div 8),
          time_estimate |-> 45 + (count * 2)]
    ELSE [severity |-> "low", urgency_days |-> 1,
          volunteers |-> 1 + (count \div 5),
          time_estimate |-> 20 + (count * 2)]

\* Classify with the remainder taken for the quotient in the high tier
Classify_Remainder(count, ncategories) ==
    IF count >= 15 \/ ncategories >= 6
    THEN [severity |-> "high", urgency_days |-> 1,
          volunteers |-> 4 + (count % 10),
          time_estimate |-> 90 + (count * 3)]
    ELSE IF count >= 7 \/ ncategories >= 4
    THEN [severity |-> "medium", urgency_days |-> 3,
          volunteers |-> 2 + (count \div 8),
          time_estimate |-> 45 + (count * 2)]
    ELSE [severity |-> "low", urgency_days |-> 7,
          volunteers |-> 1 + (count \div 5),
          time_estimate |-> 20 + (count * 2)]

\* Classify with one volunteer fewer in the medium tier
Classify_MediumUnderstaffed(count, ncategories) ==
    IF count >= 15 \/ ncategories >= 6
    THEN [severity |-> "high", urgency_days |-> 1,
          volunteers |-> 4 + (count \div 10),
          time_estimate |-> 90 + (count * 3)]
    ELSE IF count >= 7 \/ ncategories >= 4
    THEN [severity |-> "medium", urgency_days |-> 3,
          volunteers |-> 1 + (count \div 8),
          time_estimate |-> 45 + (count * 2)]
    ELSE [severity |-> "low", urgency_days |-> 7,
          volunteers |-> 1 + (count \div 5),
          time_estimate |-> 20 + (count * 2)]

\* plan_cleanup, lines 54-68: the severity tier and its estimates
Classify(count, ncategories) ==
    IF count >= 15 \/ ncategories >= 6
    THEN [severity |-> "high", urgency_days |-> 1,
          volunteers |-> 4 + (count \div 10),
          time_estimate |-> 90 + (count * 3)]
    ELSE IF count >= 7 \/ ncategories >= 4
    THEN [severity |-> "medium", urgency_days |-> 3,
          volunteers |-> 2 + (count \div 8),
          time_estimate |-> 45 + (count * 2)]
    ELSE [severity |-> "low", urgency_days |-> 7,
          volunteers |-> 1 + (count \div 5),
          time_estimate |-> 20 + (count * 2)]

\* Equipment with the glass items added once per label that names glass
Equipment_PerGlassLabel(count, categories) ==
    <<"Heavy-duty trash bags", "Gloves", "Grabber tools">>
    \o (IF "broken_glass" \in categories
        THEN <<"Safety goggles", "Puncture-resistant bags">> ELSE <<>>)
    \o (IF "glass_bottle" \in categories
        THEN <<"Safety goggles", "Puncture-resistant bags">> ELSE <<>>)
    \o (IF count > 10 THEN <<"Wheeled collection bin">> ELSE <<>>)

\* plan_cleanup, lines 71-78: the equipment recommendations
Equipment(count, categories) ==
    <<"Heavy-duty trash bags", "Gloves", "Grabber tools">>
    \o (IF "glass_bottle" \in categories
        THEN <<"Safety goggles", "Puncture-resistant bags">> ELSE <<>>)
    \o (IF count > 10 THEN <<"Wheeled collection bin">> ELSE <<>>)

\* plan_cleanup, lines 81-85
impact_descriptions(severity) ==
    CASE severity = "high" ->
           "Significant environmental concern. ... Immediate action recommended."
      [] severity = "medium" ->
           "Moderate environmental impact. ... Timely cleanup will prevent escalation."
      [] OTHER ->
           "Minor environmental impact. ... prevent accumulation."

\* EmptyPlan as the low tier computes it for count = 0, the early return missing
EmptyPlan_LowTier ==
    [severity |-> "low",
     recommended_volunteers |-> 1,
     estimated_time_minutes |-> 20,
     equipment_needed |-> <<"Heavy-duty trash bags", "Gloves", "Grabber tools">>,
     urgency_days |-> 7,
     environmental_impact |-> "Minor environmental impact. ... prevent accumulation.",
     action_summary |-> Lit("No cleanup action needed at this time.")]

\* plan_cleanup, lines 38-46: the plan of an empty detection list
EmptyPlan ==
    [severity |-> "low",
     recommended_volunteers |-> 0,
     estimated_time_minutes |-> 0,
     equipment_needed |-> <<>>,
     urgency_days |-> 0,
     environmental_impact |-> "No trash detected - area appears clean.",
     action_summary |-> Lit("No cleanup action needed at this time.")]

\* words _offline_response looks for that occur in a location or notes text:
\* none occurs in a value of Locations or NotesValues
WordsOf(s) == {}

\* _enhance_with_llm, lines 147-213: planning with Gemini.  returned is whether
\* line 210 returned text; otherwise control reaches line 215.  The context
\* reads plan['equipment'] (line 175), a key the plan does not have: the
\* KeyError is caught at line 212 before the model is called.
GeminiPlanning(plan, env) ==
    IF ~env.GEMINI_API_KEY
    THEN [returned |-> FALSE, text |-> NoneText, calls |-> 0]
    ELSE IF "equipment" \notin DOMAIN plan
    THEN [returned |-> FALSE, text |-> NoneText, calls |-> 0]
    ELSE LET r == _gemini_generate(env)
         IN IF r.exc = "none" /\ Truthy(r.text)
            THEN [returned |-> TRUE, text |-> r.text, calls |-> 1]
            ELSE [returned |-> FALSE, text |-> NoneText, calls |-> 1]

\* _enhance_with_llm, lines 216-241: the prompt of the fallback client
FallbackPrompt(plan, detections, location, notes) ==
    [words |-> {"cleanup", "plan", "severity"}
               \cup (IF location # "None" THEN WordsOf(location) ELSE {})
               \cup (IF notes # "None" THEN WordsOf(notes) ELSE {}),
     count |-> Len(detections),
     labels |-> CategoriesOf(detections),
     severity |-> plan.severity,
     volunteers |-> plan.recommended_volunteers,
     time_minutes |-> plan.estimated_time_minutes,
     location |-> location,
     notes |-> notes]

\* _enhance_with_llm: the new action_summary, the singleton afterwards and
\* the number of calls made to a narrative generator
_enhance_with_llm(plan, detections, location, notes, client, env) ==
    LET g == GeminiPlanning(plan, env)
    IN IF g.returned
       THEN [exc |-> "none", text |-> g.text, client |-> client,
             llm_calls |-> g.calls]
       ELSE LET r == generate_text(
                        client,
                        FallbackPrompt(plan, detections, location, notes),
                        env)
            IN [exc |-> "none",
                text |-> IF r.exc # "none" THEN plan.action_summary ELSE r.text,
                client |-> r.client,
                llm_calls |-> g.calls + 1]

\* plan_cleanup, lines 48-97: the rule-based plan of a non-empty list
BasePlan(detections) ==
    LET count == Len(detections)
        avg_confidence == SumScores(detections) \div count
        categories == CategoriesOf(detections)
        c == Classify(count, Cardinality(categories))
    IN [severity |-> c.severity,
        recommended_volunteers |-> c.volunteers,
        estimated_time_minutes |-> c.time_estimate,
        equipment_needed |-> Equipment(count, categories),
        urgency_days |-> c.urgency_days,
        environmental_impact |-> impact_descriptions(c.severity),
        action_summary |->
            _generate_action_summary(
                c.severity, c.volunteers, c.time_estimate, count, categories)]

\* plan_cleanup with the time estimate of an enhanced plan taken from the
\* narrative instead of the rules
plan_cleanup_NarrativeEstimate(detections, location, notes, use_llm, client, env) ==
    IF detections = <<>>
    THEN [exc |-> "none", plan |-> EmptyPlan, client |-> client, llm_calls |-> 0]
    ELSE LET plan == BasePlan(detections)
         IN IF use_llm
            THEN LET e == _enhance_with_llm(plan, detections, location, notes,
                                            client, env)
                 IN [exc |-> "none",
                     plan |-> [plan EXCEPT !.action_summary = e.text,
                                           !.estimated_time_minutes = 60],
                     client |-> e.client,
                     llm_calls |-> e.llm_calls]
            ELSE [exc |-> "none", plan |-> plan, client |-> client,
                  llm_calls |-> 0]

\* plan_cleanup: the plan, the exception raised to the caller if any, the
\* singleton afterwards and the number of narrative generator calls made
plan_cleanup(detections, location, notes, use_llm, client, env) ==
    IF detections = <<>>
    THEN [exc |-> "none", plan |-> EmptyPlan, client |-> client, llm_calls |-> 0]
    ELSE LET plan == BasePlan(detections)
         IN IF use_llm
            THEN LET e == _enhance_with_llm(plan, detections, location, notes,
                                            client, env)
                 IN IF e.exc # "none"
                    THEN [exc |-> e.exc, plan |-> EmptyPlan, client |-> e.client,
                          llm_calls |-> e.llm_calls]
                    ELSE [exc |-> "none",
                          plan |-> [plan EXCEPT !.action_summary = e.text],
                          client |-> e.client,
                          llm_calls |-> e.llm_calls]
            ELSE [exc |-> "none", plan |-> plan, client |-> client,
                  llm_calls |-> 0]

(***************************************************************************)
(* The environments a call can meet.  The singleton, once built, was built *)
(* from this process's environment, so a later call sees the same          *)
(* LLM_PROVIDER, key and SDK; a field no code reads on the call's path     *)
(* keeps its default.                                                      *)
(***************************************************************************)
DefaultEnv ==
    [GEMINI_API_KEY |-> FALSE, LLM_PROVIDER |-> "offline", API_KEY |-> FALSE,
     sdk |-> "ok", api |-> "text"]

AllEnvs ==
    [GEMINI_API_KEY : BOOLEAN, LLM_PROVIDER : Providers, API_KEY : BOOLEAN,
     sdk : SdkStates, api : ApiOutcomes]

EnvChoices(client, use_llm) ==
    IF ~use_llm THEN {DefaultEnv}
    ELSE {e \in AllEnvs :
            \* GEMINI_API_KEY is the API key of the provider "gemini"
            /\ e.LLM_PROVIDER = "gemini" => e.API_KEY = e.GEMINI_API_KEY
            /\ e.LLM_PROVIDER = "offline" => ~e.API_KEY
            /\ ~e.API_KEY => e.sdk = "ok"
            /\ client \notin {"None", "offline"} =>
                  e.LLM_PROVIDER = client /\ e.API_KEY /\ e.sdk = "ok"
            /\ client = "offline" => _initialize_client(e).provider = "offline"
            /\ _initialize_client(e).provider \in {"offline", "None"} =>
                  e.api = "text"}

NoCall ==
    [detections |-> <<>>, location |-> "None", notes |-> "None",
     use_llm |-> FALSE, env |-> DefaultEnv, client |-> "None"]

NoResult == [exc |-> "none", plan |-> EmptyPlan, llm_calls |-> 0]

(***************************************************************************)
(* The event store (src/tools/history_tool.py): one SQLite table, events.  *)
(*                                                                         *)
(* A location is a text read character by character (LIKE does), so it is  *)
(* the sequence of its characters; None is the one-element sequence        *)
(* <<"None">>, which no text is, a text being made of single characters.   *)
(* An optional integer is <<>> for None and <<n>> for n.  A timestamp is   *)
(* the day the clock showed: isoformat() writes the fields of a date and   *)
(* time most significant first and zero-padded, so the TEXT order SQLite   *)
(* compares timestamps in is the order of the instants.  categories, a     *)
(* JSON list of the distinct labels in the order a Python set iterates     *)
(* them, which the language leaves open, is the set of those labels.  The  *)
(* columns latitude, longitude, image_path and created_at are written once *)
(* and read by no condition, grouping or ordering; they are left out.      *)
(***************************************************************************)
MaxEvents == 2

MaxClock == 33

DefaultLimit == 100

DefaultMinEvents == 2

DefaultDays == 30

\* the proleptic Gregorian ordinal of day 0 of the clock: 1 January 2024,
\* counted from datetime.min, 1 January of the year 1, as day 1
FirstDayOrdinal == 738886

NoLocation == <<"None">>

NoneInt == <<>>

Some(n) == <<n>>

\* Python's truth value of an Optional[int]: None and 0 are false
TruthyInt(v) == v # NoneInt /\ v[1] # 0

\* Python's truth value of an Optional[str] location: None and '' are false
TruthyLocation(v) == v # NoLocation /\ v # <<>>

\* Python's truth value of an Optional[str] severity
TruthySeverity(v) == v # "None" /\ v # ""

\* the locations uploads carry
EventLocations == {NoLocation, <<"A", "b">>, <<"a", "b">>}

\* what uploads carry besides a location: one item, or three items of two
\* labels with a note
EventUploads ==
    {[detections |-> MkDetections(1, 1, 0), severity |-> "low",
      notes |-> "None"],
     [detections |-> MkDetections(3, 2, 0), severity |-> "high",
      notes |-> "near the playground"]}

\* the sequences that hold every element of S once
Orderings(S) ==
    {s \in [1..Cardinality(S) -> S] : \A x \in S : \E i \in DOMAIN s : s[i] = x}

Rows(table) == {table[i] : i \in DOMAIN table}

MaxOf(S) == CHOOSE x \in S : \A y \in S : y <= x

\* INTEGER PRIMARY KEY AUTOINCREMENT: one more than the largest rowid the
\* table has ever held
NextRowid(table, seq) ==
    MaxOf({seq} \cup {table[i].id : i \in DOMAIN table}) + 1

\* log_event with an id the table has handed out before
log_event_StaleSequence(table, seq, clock, detections, severity, location, notes) ==
    LET event_id == MaxOf({seq} \cup {table[i].id : i \in DOMAIN table})
        row == [id |-> event_id, timestamp |-> clock, location |-> location,
                severity |-> severity, trash_count |-> Len(detections),
                categories |-> CategoriesOf(detections),
                detections |-> detections,
                notes |-> notes, cleaned |-> FALSE]
    IN [events |-> Append(table, row), sqlite_sequence |-> event_id,
        ret |-> [event_id |-> event_id, timestamp |-> clock,
                 message |-> "Event logged successfully (ID: {event_id})"]]

log_event(table, seq, clock, detections, severity, location, notes) ==
    LET event_id == NextRowid(table, seq)
        row == [id |-> event_id, timestamp |-> clock, location |-> location,
                severity |-> severity, trash_count |-> Len(detections),
                categories |-> CategoriesOf(detections),
                detections |-> detections,
                notes |-> notes, cleaned |-> FALSE]
    IN [events |-> Append(table, row), sqlite_sequence |-> event_id,
        ret |-> [event_id |-> event_id, timestamp |-> clock,
                 message |-> "Event logged successfully (ID: {event_id})"]]

\* _get_connection that creates the table anew on every connection
_get_connection_Recreate(table) == <<>>

\* _get_connection: CREATE TABLE IF NOT EXISTS and CREATE INDEX IF NOT EXISTS
\* leave a table that exists as it is and give a new database the empty
\* table, which is the table <<>> stands for; the commit has nothing to write
_get_connection(table) == table

\* SQLite's LIKE compares the ASCII letters without regard to case
Fold(c) ==
    CASE c = "A" -> "a"
      [] c = "B" -> "b"
      [] OTHER -> c

\* text LIKE pattern, no ESCAPE: '%' stands for any run of characters, '_'
\* for any one character
RECURSIVE Like(_, _)
Like(pattern, text) ==
    IF pattern = <<>> THEN text = <<>>
    ELSE IF Head(pattern) = "%"
         THEN \/ Like(Tail(pattern), text)
              \/ text # <<>> /\ Like(pattern, Tail(text))
         ELSE /\ text # <<>>
              /\ Head(pattern) = "_" \/ Fold(Head(pattern)) = Fold(Head(text))
              /\ Like(Tail(pattern), Tail(text))

\* location LIKE '%<filter>%'; NULL is LIKE nothing
LocationLike(row_location, location) ==
    /\ row_location # NoLocation
    /\ Like(<<"%">> \o location \o <<"%">>, row_location)

\* datetime.now() - timedelta(days=days) raises OverflowError when the date
\* it stands for is before datetime.min
DateOverflow(clock, days) ==
    TruthyInt(days) /\ days[1] >= FirstDayOrdinal + clock

\* the WHERE clause of query_events; a is [days, location, severity,
\* min_trash_count, cleaned_only, limit]
Where(row, a, clock) ==
    /\ TruthyInt(a.days) => row.timestamp >= clock - a.days[1]
    /\ TruthyLocation(a.location) => LocationLike(row.location, a.location)
    /\ TruthySeverity(a.severity) => row.severity = a.severity
    /\ TruthyInt(a.min_trash_count) => row.trash_count >= a.min_trash_count[1]
    /\ a.cleaned_only => row.cleaned

\* ORDER BY timestamp ASC
RECURSIVE OrderByTimestamp_Ascending(_)
OrderByTimestamp_Ascending(S) ==
    IF S = {} THEN <<>>
    ELSE LET r == CHOOSE x \in S : \A y \in S : x.timestamp <= y.timestamp
         IN <<r>> \o OrderByTimestamp_Ascending(S \ {r})

\* ORDER BY timestamp DESC
RECURSIVE OrderByTimestamp(_)
OrderByTimestamp(S) ==
    IF S = {} THEN <<>>
    ELSE LET r == CHOOSE x \in S : \A y \in S : y.timestamp <= x.timestamp
         IN <<r>> \o OrderByTimestamp(S \ {r})

RECURSIVE SumTrash(_)
SumTrash(S) ==
    IF S = {} THEN 0
    ELSE LET r == CHOOSE x \in S : TRUE
         IN r.trash_count + SumTrash(S \ {r})

\* the columns the SELECT of query_events names, categories parsed
EventOf(row) ==
    [id |-> row.id, timestamp |-> row.timestamp, location |-> row.location,
     severity |-> row.severity, trash_count |-> row.trash_count,
     categories |-> row.categories, notes |-> row.notes,
     cleaned |-> row.cleaned]

\* the aggregate row over the rows S: SUM and AVG of no row are NULL, an
\* average is the pair <<sum, count>>, COUNT(DISTINCT location) skips NULL
SummaryOf(S) ==
    [total_events |-> Cardinality(S),
     total_trash_items |-> IF S = {} THEN NoneInt ELSE Some(SumTrash(S)),
     avg_trash_per_event |->
         IF S = {} THEN <<>> ELSE <<SumTrash(S), Cardinality(S)>>,
     unique_locations |->
         Cardinality({r.location : r \in S} \ {NoLocation})]

\* query_events with the summary taken over the page it returns
query_events_PageSummary(table, clock, a) ==
    LET matching == {r \in Rows(table) : Where(r, a, clock)}
        page == Take(OrderByTimestamp(matching), a.limit)
    IN IF DateOverflow(clock, a.days) THEN [exc |-> "OverflowError"]
       ELSE [events |-> [i \in DOMAIN page |-> EventOf(page[i])],
             total_count |-> Len(page),
             summary |-> SummaryOf(Rows(page)),
             filters_applied |->
                 [days |-> a.days, location |-> a.location,
                  severity |-> a.severity,
                  min_trash_count |-> a.min_trash_count]]

query_events(table, clock, a) ==
    LET matching == {r \in Rows(table) : Where(r, a, clock)}
        page == Take(OrderByTimestamp(matching), a.limit)
    IN IF DateOverflow(clock, a.days) THEN [exc |-> "OverflowError"]
       ELSE [events |-> [i \in DOMAIN page |-> EventOf(page[i])],
             total_count |-> Len(page),
             summary |-> SummaryOf(matching),
             filters_applied |->
                 [days |-> a.days, location |-> a.location,
                  severity |-> a.severity,
                  min_trash_count |-> a.min_trash_count]]

\* one row of the GROUP BY location of get_hotspots
HotspotOf(G) ==
    [location |-> (CHOOSE r \in G : TRUE).location,
     event_count |-> Cardinality(G),
     total_trash |-> SumTrash(G),
     avg_trash |-> <<SumTrash(G), Cardinality(G)>>,
     last_event |-> MaxOf({r.timestamp : r \in G}),
     severities |-> {r.severity : r \in G}]

\* ORDER BY event_count DESC, total_trash DESC
HotspotOrder(x, y) ==
    \/ x.event_count > y.event_count
    \/ x.event_count = y.event_count /\ x.total_trash >= y.total_trash

\* get_hotspots: the outcomes the function allows; rows equal in both sort
\* keys come in an order SQL leaves open
get_hotspots(table, clock, min_events, days) ==
    LET inside == {r \in Rows(table) :
                     /\ r.location # NoLocation
                     /\ TruthyInt(days) => r.timestamp >= clock - days[1]}
        groups == {{r \in inside : r.location = l} :
                     l \in {r.location : r \in inside}}
        kept == {HotspotOf(G) : G \in {H \in groups : Cardinality(H) >= min_events}}
    IN IF DateOverflow(clock, days) THEN {[exc |-> "OverflowError"]}
       ELSE {[hotspots |-> hs, count |-> Len(hs),
              criteria |-> [min_events |-> min_events,
                            days |-> IF TruthyInt(days) THEN days
                                     ELSE NoneInt]] :
               hs \in {s \in Orderings(kept) :
                         \A i, j \in DOMAIN s :
                            i < j => HotspotOrder(s[i], s[j])}}

\* mark_cleaned that flips the flag
mark_cleaned_Toggle(table, event_id) ==
    [events |-> [i \in DOMAIN table |->
                   IF table[i].id = event_id
                   THEN [table[i] EXCEPT !.cleaned = ~table[i].cleaned]
                   ELSE table[i]],
     ret |-> [message |-> "Event {event_id} marked as cleaned",
              event_id |-> event_id]]

\* mark_cleaned whose UPDATE has no WHERE clause
mark_cleaned_AllRows(table, event_id) ==
    [events |-> [i \in DOMAIN table |-> [table[i] EXCEPT !.cleaned = TRUE]],
     ret |-> [message |-> "Event {event_id} marked as cleaned",
              event_id |-> event_id]]

\* mark_cleaned whose UPDATE also sets notes to NULL
mark_cleaned_ClearsNotes(table, event_id) ==
    [events |-> [i \in DOMAIN table |->
                   IF table[i].id = event_id
                   THEN [table[i] EXCEPT !.cleaned = TRUE, !.notes = "None"]
                   ELSE table[i]],
     ret |-> [message |-> "Event {event_id} marked as cleaned",
              event_id |-> event_id]]

\* mark_cleaned: UPDATE events SET cleaned = 1 WHERE id = ?
mark_cleaned(table, event_id) ==
    [events |-> [i \in DOMAIN table |->
                   IF table[i].id = event_id
                   THEN [table[i] EXCEPT !.cleaned = TRUE]
                   ELSE table[i]],
     ret |-> [message |-> "Event {event_id} marked as cleaned",
              event_id |-> event_id]]

NoStoreCall == [op |-> "none", args |-> <<>>, ret |-> <<>>]

\* a new database: _get_connection creates the table empty; the clock
\* starts at day 0
StoreInit ==
    /\ events = <<>>
    /\ sqlite_sequence = 0
    /\ now = 0
    /\ last = NoStoreCall
    /\ before = <<>>
    /\ issued = <<>>

\* the independent request handlers (threads of the web server) that call
\* the store at the same time
Handlers == {"h1", "h2"}

\* a handler between two calls
IdleHandler == [pc |-> "idle"]

Init ==
    /\ pc = "idle"
    /\ _llm_client = "None"
    /\ call = NoCall
    /\ result = NoResult
    /\ StoreInit
    /\ handlers = [h \in Handlers |-> IdleHandler]

\* a caller calls plan_cleanup and gets its result
PlanCleanup ==
    /\ pc = "idle"
    /\ \E detections \in DetectionLists, location \in Locations,
          notes \in NotesValues, use_llm \in BOOLEAN :
         \E env \in EnvChoices(_llm_client, use_llm) :
            LET r == plan_cleanup(detections, location, notes, use_llm,
                                  _llm_client, env)
            IN /\ call' = [detections |-> detections, location |-> location,
                           notes |-> notes, use_llm |-> use_llm, env |-> env,
                           client |-> _llm_client]
               /\ result' = [exc |-> r.exc, plan |-> r.plan,
                             llm_calls |-> r.llm_calls]
               /\ _llm_client' = r.client
    /\ pc' = "done"
    /\ UNCHANGED <<handlers, storeVars>>

\* the caller is done with the result; the process lives on with its singleton
Return ==
    /\ pc = "done"
    /\ pc' = "idle"
    /\ call' = NoCall
    /\ result' = NoResult
    /\ UNCHANGED <<handlers, _llm_client, storeVars>>

Next == PlanCleanup \/ Return

Spec == Init /\ [][Next]_vars

(***************************************************************************)
(* The callers of the event store.  Every function opens its own           *)
(* connection, runs its statements, commits and closes; here one call runs *)
(* at a time.  The clock reads a later instant at every log_event, a day   *)
(* later in this model.                                                    *)
(***************************************************************************)
\* the filters callers pass to query_events
QueryDays == {NoneInt, Some(0), Some(1), Some(1000000)}

QueryLocations == {NoLocation, <<>>, <<"A", "b">>, <<"b">>, <<"_", "b">>}

QuerySeverities == {"None", "high"}

QueryMinTrash == {NoneInt, Some(2)}

QueryLimits == {1, DefaultLimit}

\* query_events called with no argument
DefaultQuery ==
    [days |-> NoneInt, location |-> NoLocation, severity |-> "None",
     min_trash_count |-> NoneInt, cleaned_only |-> FALSE,
     limit |-> DefaultLimit]

Supplied(a) ==
    {f \in {"days", "location", "severity", "min_trash_count", "cleaned_only"} :
        CASE f = "days" -> a.days # NoneInt
          [] f = "location" -> a.location # NoLocation
          [] f = "severity" -> a.severity # "None"
          [] f = "min_trash_count" -> a.min_trash_count # NoneInt
          [] f = "cleaned_only" -> a.cleaned_only}

\* no filter, one filter, or two filters at once under the default limit;
\* no filter or one filter under a limit of 1
QueryArgs ==
    {a \in [days : QueryDays, location : QueryLocations,
            severity : QuerySeverities, min_trash_count : QueryMinTrash,
            cleaned_only : BOOLEAN, limit : QueryLimits] :
        Cardinality(Supplied(a)) <= IF a.limit = DefaultLimit THEN 2 ELSE 1}

\* a caller logs an event
LogEvent ==
    /\ pc = "idle"
    /\ Len(events) < MaxEvents
    /\ \E u \in EventUploads, location \in EventLocations :
         LET r == log_event(_get_connection(events), sqlite_sequence, now,
                            u.detections, u.severity, location, u.notes)
         IN /\ events' = r.events
            /\ sqlite_sequence' = r.sqlite_sequence
            /\ last' = [op |-> "log_event",
                        args |-> [detections |-> u.detections,
                                  severity |-> u.severity,
                                  location |-> location, notes |-> u.notes],
                        ret |-> r.ret]
            /\ issued' = Append(issued, r.ret.event_id)
    /\ before' = events
    /\ now' = now + 1
    /\ pc' = "done"
    /\ UNCHANGED <<handlers, plannerVars>>

\* a caller queries the events
QueryEvents ==
    /\ pc = "idle"
    /\ \E a \in QueryArgs :
         last' = [op |-> "query_events", args |-> a,
                  ret |-> query_events(_get_connection(events), now, a)]
    /\ events' = _get_connection(events)
    /\ before' = events
    /\ pc' = "done"
    /\ UNCHANGED <<handlers, plannerVars, sqlite_sequence, now, issued>>

\* a caller asks for the hotspots, giving min_events and days or leaving
\* them to their defaults
GetHotspots ==
    /\ pc = "idle"
    /\ \E min_events_given \in BOOLEAN, days_given \in BOOLEAN :
         \E m \in IF min_events_given THEN {1} ELSE {DefaultMinEvents},
            d \in IF days_given THEN QueryDays
                  ELSE {Some(DefaultDays)} :
            \E ret \in get_hotspots(_get_connection(events), now, m, d) :
               last' = [op |-> "get_hotspots",
                        args |-> [min_events |-> m, days |-> d,
                                  min_events_given |-> min_events_given,
                                  days_given |-> days_given],
                        ret |-> ret]
    /\ events' = _get_connection(events)
    /\ before' = events
    /\ pc' = "done"
    /\ UNCHANGED <<handlers, plannerVars, sqlite_sequence, now, issued>>

\* a caller marks an event cleaned, by an id the store holds or not
MarkCleaned ==
    /\ pc = "idle"
    /\ \E event_id \in 1..(MaxEvents + 1) :
         LET r == mark_cleaned(_get_connection(events), event_id)
         IN /\ events' = r.events
            /\ last' = [op |-> "mark_cleaned",
                        args |-> [event_id |-> event_id], ret |-> r.ret]
    /\ before' = events
    /\ pc' = "done"
    /\ UNCHANGED <<handlers, plannerVars, sqlite_sequence, now, issued>>

\* more than the default window of get_hotspots passes with no call
Wait ==
    /\ pc = "idle"
    /\ now + DefaultDays + 1 <= MaxClock
    /\ now' = now + DefaultDays + 1
    /\ UNCHANGED <<handlers, pc, plannerVars, events, sqlite_sequence, last, before, issued>>

\* the caller is done with what the store returned
StoreReturn ==
    /\ pc = "done"
    /\ last.op # "none"
    /\ pc' = "idle"
    /\ last' = NoStoreCall
    /\ before' = events
    /\ UNCHANGED <<handlers, plannerVars, events, sqlite_sequence, now, issued>>

StoreNext ==
    LogEvent \/ QueryEvents \/ GetHotspots \/ MarkCleaned \/ Wait \/ StoreReturn

StoreSpec == Init /\ [][StoreNext]_vars

(***************************************************************************)
(* The report generator (src/tools/report_generator_tool.py).  A report    *)
(* text is the sequence of its lines; a line is the fixed text of its      *)
(* template and the values interpolated into it: s a string, n a number,   *)
(* location a location text, list a list of strings.                       *)
(***************************************************************************)
ReportLine(text, s, n, location, list) ==
    [text |-> text, s |-> s, n |-> n, location |-> location, list |-> list]

FixedLine(text) == ReportLine(text, "", 0, <<>>, <<>>)

\* label.replace('_', ' ').title()
Title(label) ==
    CASE label = "aluminum_can" -> "Aluminum Can"
      [] label = "broken_glass" -> "Broken Glass"
      [] label = "cigarette_butt" -> "Cigarette Butt"
      [] label = "food_wrapper" -> "Food Wrapper"
      [] label = "glass_bottle" -> "Glass Bottle"
      [] label = "paper_cup" -> "Paper Cup"
      [] label = "plastic_bottle" -> "Plastic Bottle"
      [] OTHER -> label

\* category_counts: the dict of label -> count, as its items in insertion
\* order (the order of first occurrence in detections)
RECURSIVE category_counts(_)
category_counts(detections) ==
    IF detections = <<>> THEN <<>>
    ELSE LET rest == category_counts(SubSeq(detections, 1, Len(detections) - 1))
             label == detections[Len(detections)].label
         IN IF \E i \in DOMAIN rest : rest[i].label = label
            THEN [i \in DOMAIN rest |->
                    IF rest[i].label = label
                    THEN [rest[i] EXCEPT !.count = @ + 1] ELSE rest[i]]
            ELSE Append(rest, [label |-> label, count |-> 1])

\* seq without its element at index i
RemoveAt(seq, i) == SubSeq(seq, 1, i - 1) \o SubSeq(seq, i + 1, Len(seq))

\* sorted(category_counts.items()): (label, count) pairs in tuple order; the
\* labels of a dict are distinct, so this is the string order of the labels
RECURSIVE SortedByLabel(_)
SortedByLabel(items) ==
    IF items = <<>> THEN <<>>
    ELSE LET i == CHOOSE k \in DOMAIN items :
                    \A j \in DOMAIN items :
                       Rank(items[k].label) <= Rank(items[j].label)
         IN <<items[i]>> \o SortedByLabel(RemoveAt(items, i))

\* sorted(category_counts.items(), key=lambda x: x[1], reverse=True): the
\* count descending; the sort is stable, items of one count keep their
\* insertion order
RECURSIVE SortedByCount(_)
SortedByCount(items) ==
    IF items = <<>> THEN <<>>
    ELSE LET i == CHOOSE k \in DOMAIN items :
                    /\ \A j \in DOMAIN items : items[k].count >= items[j].count
                    /\ \A j \in 1..(k - 1) : items[j].count < items[k].count
         IN <<items[i]>> \o SortedByCount(RemoveAt(items, i))

\* urgency_text.get(severity, '')
urgency_text(severity) ==
    CASE severity = "high" -> "URGENT - Immediate attention required"
      [] severity = "medium" -> "Moderate priority - Action needed within 1-3 days"
      [] severity = "low" -> "Low priority - Routine cleanup recommended"
      [] OTHER -> ""

\* Python truthiness of a notes value: a str or None
TruthyNotes(notes) == notes # "None" /\ notes # ""

\* location or <default>
LocationOr(location, default) ==
    IF TruthyLocation(location) THEN location ELSE <<default>>

\* the plan argument is <<>> for None and <<plan>> for a plan dict, which has
\* keys and so is truthy
TruthyPlan(plan) == plan # <<>>

\* the breakdown lines of the email with the count of the whole list on each
EmailItems_TotalOnEach(detections) ==
    [i \in DOMAIN category_counts(detections) |->
        ReportLine("  * {label}: {count} item(s)",
                   Title(SortedByLabel(category_counts(detections))[i].label),
                   Len(detections), <<>>, <<>>)]

\* _generate_email_report, lines 71-74: items_list
EmailItems(detections) ==
    LET items == SortedByLabel(category_counts(detections))
    IN [i \in DOMAIN items |->
          ReportLine("  * {label}: {count} item(s)",
                     Title(items[i].label), items[i].count, <<>>, <<>>)]

\* _generate_email_report
_generate_email_report(detections, severity, location, notes, plan, clock) ==
    LET location_str == LocationOr(location, "[Location to be specified]")
    IN <<ReportLine("Subject: Trash Cleanup Request - {location_str}",
                    "", 0, location_str, <<>>),
         FixedLine("Dear City Services / Environmental Department, ..."),
         ReportLine("**Location:** {location_str}", "", 0, location_str, <<>>),
         ReportLine("**Date Reported:** {date_str}", "", clock, <<>>, <<>>),
         ReportLine("**Severity Level:** {severity} ({urgency_text})",
                    Upper(severity), 0, <<>>, <<urgency_text(severity)>>),
         FixedLine("**Details of Trash Observed:**"),
         ReportLine("Total items detected: {len(detections)}",
                    "", Len(detections), <<>>, <<>>)>>
       \o EmailItems(detections)
       \o (IF TruthyNotes(notes)
           THEN <<ReportLine("**Additional Context:** {notes}",
                             notes, 0, <<>>, <<>>)>>
           ELSE <<>>)
       \o (IF TruthyPlan(plan)
           THEN <<FixedLine("**Recommended Action:**"),
                  ReportLine("- Estimated cleanup time: {} minutes", "",
                             plan[1].estimated_time_minutes, <<>>, <<>>),
                  ReportLine("- Volunteers needed: {}", "",
                             plan[1].recommended_volunteers, <<>>, <<>>),
                  ReportLine("- Equipment required: {}", "", 0, <<>>,
                             plan[1].equipment_needed),
                  ReportLine("- Urgency: Action within {} day(s)", "",
                             plan[1].urgency_days, <<>>, <<>>)>>
           ELSE <<>>)
       \o <<FixedLine("This accumulation poses ... Best regards, ...")>>

\* _generate_markdown_report, lines 156-157: the items breakdown
MarkdownItems(detections) ==
    LET items == SortedByCount(category_counts(detections))
    IN [i \in DOMAIN items |->
          ReportLine("- **{label}:** {count} item(s)",
                     Title(items[i].label), items[i].count, <<>>, <<>>)]

\* _generate_markdown_report
_generate_markdown_report(detections, severity, location, notes, event_id, plan, clock) ==
    <<FixedLine("# Trash Detection Report"),
      FixedLine("## Event Information"),
      IF TruthyInt(event_id)
      THEN ReportLine("- **Event ID:** {event_id}", "", event_id[1], <<>>, <<>>)
      ELSE ReportLine("- **Event ID:** {event_id}", "Not logged", 0, <<>>, <<>>),
      ReportLine("- **Timestamp:** {timestamp}", "", clock, <<>>, <<>>),
      ReportLine("- **Location:** {location_str}", "", 0,
                 LocationOr(location, "Unspecified location"), <<>>),
      ReportLine("- **Severity:** {severity}", Upper(severity), 0, <<>>, <<>>),
      FixedLine("## Detection Summary"),
      ReportLine("- **Total Items:** {len(detections)}",
                 "", Len(detections), <<>>, <<>>),
      ReportLine("- **Unique Categories:** {len(category_counts)}",
                 "", Len(category_counts(detections)), <<>>, <<>>),
      FixedLine("### Items Breakdown")>>
    \o MarkdownItems(detections)
    \o (IF TruthyPlan(plan)
        THEN <<FixedLine("## Cleanup Plan"),
               ReportLine("- **Recommended Volunteers:** {}", "",
                          plan[1].recommended_volunteers, <<>>, <<>>),
               ReportLine("- **Estimated Time:** {} minutes", "",
                          plan[1].estimated_time_minutes, <<>>, <<>>),
               ReportLine("- **Urgency:** Within {} day(s)", "",
                          plan[1].urgency_days, <<>>, <<>>),
               ReportLine("- **Equipment Needed:**", "", 0, <<>>,
                          plan[1].equipment_needed),
               ReportLine("### Environmental Impact {}",
                          plan[1].environmental_impact, 0, <<>>, <<>>)>>
        ELSE <<>>)
    \o (IF TruthyNotes(notes)
        THEN <<ReportLine("## Additional Notes {notes}", notes, 0, <<>>, <<>>)>>
        ELSE <<>>)
    \o <<FixedLine("--- *Generated by CleanCity Agent*")>>

\* _generate_plain_report, lines 207-209: the items by category
PlainItems(detections) ==
    LET items == SortedByLabel(category_counts(detections))
    IN [i \in DOMAIN items |->
          ReportLine("  - {label}: {count}",
                     Title(items[i].label), items[i].count, <<>>, <<>>)]

\* _generate_plain_report
_generate_plain_report(detections, severity, location, notes, plan, clock) ==
    <<FixedLine("===="),
      FixedLine("TRASH DETECTION REPORT"),
      FixedLine("===="),
      ReportLine("Date: {}", "", clock, <<>>, <<>>),
      ReportLine("Location: {}", "", 0, LocationOr(location, "Unspecified"), <<>>),
      ReportLine("Severity: {}", Upper(severity), 0, <<>>, <<>>),
      ReportLine("Total Items Detected: {len(detections)}",
                 "", Len(detections), <<>>, <<>>),
      FixedLine("Items by Category:")>>
    \o PlainItems(detections)
    \o (IF TruthyPlan(plan)
        THEN <<FixedLine("Cleanup Recommendations:"),
               ReportLine("  - Volunteers needed: {}", "",
                          plan[1].recommended_volunteers, <<>>, <<>>),
               ReportLine("  - Estimated time: {} minutes", "",
                          plan[1].estimated_time_minutes, <<>>, <<>>),
               ReportLine("  - Action within: {} day(s)", "",
                          plan[1].urgency_days, <<>>, <<>>),
               ReportLine("  - Equipment: {}", "", 0, <<>>,
                          plan[1].equipment_needed)>>
        ELSE <<>>)
    \o (IF TruthyNotes(notes)
        THEN <<FixedLine("Notes:"), ReportLine("{notes}", notes, 0, <<>>, <<>>)>>
        ELSE <<>>)
    \o <<FixedLine("====")>>

\* generate_report: the dict it returns
generate_report(detections, severity, location, notes, event_id, plan, format, clock) ==
    [report |->
        IF format = "email"
        THEN _generate_email_report(detections, severity, location, notes,
                                    plan, clock)
        ELSE IF format = "markdown"
        THEN _generate_markdown_report(detections, severity, location, notes,
                                       event_id, plan, clock)
        ELSE _generate_plain_report(detections, severity, location, notes,
                                    plan, clock),
     format |-> format,
     generated_at |-> clock,
     event_id |-> event_id]

(***************************************************************************)
(* The callers of the report generator.                                    *)
(***************************************************************************)
\* the format argument: the three styles and a name that is none of them
ReportFormats == {"email", "markdown", "plain", "html"}

ReportSeverities == {"low", "high"}

ReportLocations == {NoLocation, <<"A", "b">>}

ReportEventIds == {NoneInt, Some(1)}

\* the plan argument: None, or the plan the planner makes of the detections
ReportPlans(detections) ==
    {<<>>,
     <<plan_cleanup(detections, "None", "None", FALSE, "None", DefaultEnv).plan>>}

\* a caller asks for a report
GenerateReport ==
    /\ pc = "idle"
    /\ \E detections \in DetectionLists, severity \in ReportSeverities,
          location \in ReportLocations, notes \in NotesValues,
          event_id \in ReportEventIds, format \in ReportFormats :
         \E plan \in ReportPlans(detections) :
            last' = [op |-> "generate_report",
                     args |-> [detections |-> detections,
                               severity |-> severity, location |-> location,
                               notes |-> notes, event_id |-> event_id,
                               plan |-> plan, format |-> format],
                     ret |-> generate_report(detections, severity, location,
                                             notes, event_id, plan, format,
                                             now)]
    /\ pc' = "done"
    /\ UNCHANGED <<handlers, plannerVars, events, sqlite_sequence, now, before, issued>>

\* the caller is done with the report
ReportReturn ==
    /\ pc = "done"
    /\ last.op = "generate_report"
    /\ pc' = "idle"
    /\ last' = NoStoreCall
    /\ UNCHANGED <<handlers, plannerVars, events, sqlite_sequence, now, before, issued>>

ReportNext == GenerateReport \/ ReportReturn

ReportSpec == Init /\ [][ReportNext]_vars

(***************************************************************************)
(* The workflow of one image (src/agents/planner_agent.py).  The detector  *)
(* is outside the program: detect_trash returns the list the YOLO model    *)
(* finds, or [] when the model fails (trash_model.py, lines 123-126), so   *)
(* a run draws the detection list.  trace lists the calls the workflow     *)
(* makes to the tools, in order, with the severity and the event_id it     *)
(* passes.                                                                 *)
(***************************************************************************)
ToolCall(fn, severity, event_id) ==
    [fn |-> fn, severity |-> severity, event_id |-> event_id]

\* the str whose characters a location text lists, as the planner receives it
Joined(location) ==
    CASE location = NoLocation -> "None"
      [] location = <<"A", "b">> -> "Ab"
      [] location = <<"a", "b">> -> "ab"
      [] OTHER -> ""

\* _create_workflow_summary
_create_workflow_summary(detections, plan, event_id) ==
    [text |-> "**Analysis Complete** ...",
     count |-> Len(detections),
     categories |-> Cardinality(CategoriesOf(detections)),
     severity |-> Upper(plan.severity),
     volunteers |-> plan.recommended_volunteers,
     time |-> plan.estimated_time_minutes,
     urgency_days |-> plan.urgency_days,
     saved |-> IF TruthyInt(event_id) THEN event_id ELSE NoneInt]

\* the summary of a run that found no trash
NoTrashSummary ==
    [text |-> "No trash detected in this image. The area appears clean!",
     count |-> 0, categories |-> 0, severity |-> "", volunteers |-> 0,
     time |-> 0, urgency_days |-> 0, saved |-> NoneInt]

\* run_cleanup_workflow, line 92, saving whatever the caller asked for
SavesToHistory_Always(save_to_history) == TRUE

\* run_cleanup_workflow, line 92: if save_to_history
SavesToHistory(save_to_history) == save_to_history

\* run_cleanup_workflow, line 95: severity=plan["severity"]
LoggedSeverity(plan) == plan.severity

\* run_cleanup_workflow, lines 89-135: the steps after planning; p is what
\* plan_cleanup gave
WorkflowAfterPlan(detections, location, notes, save_to_history, table, seq, clock, p) ==
    LET saves == SavesToHistory(save_to_history)
        l == log_event(_get_connection(table), seq, clock, detections,
                       LoggedSeverity(p.plan), location, notes)
        event_id == IF saves THEN Some(l.ret.event_id) ELSE NoneInt
    IN [ret |-> [detections |-> detections, plan |-> <<p.plan>>,
                 report |-> generate_report(detections, p.plan.severity,
                                            location, notes, event_id,
                                            <<p.plan>>, "email", clock).report,
                 event_id |-> event_id,
                 boxes |-> Some(Len(detections)),
                 summary |-> _create_workflow_summary(detections, p.plan,
                                                      event_id),
                 status |-> "success"],
        events |-> IF saves THEN l.events ELSE table,
        sqlite_sequence |-> IF saves THEN l.sqlite_sequence ELSE seq,
        client |-> p.client,
        trace |-> <<ToolCall("detect_trash_mcp", "", NoneInt),
                    ToolCall("plan_cleanup", "", NoneInt)>>
                  \o (IF saves
                      THEN <<ToolCall("log_event", LoggedSeverity(p.plan),
                                      NoneInt)>>
                      ELSE <<>>)
                  \o <<ToolCall("generate_report", p.plan.severity,
                                event_id)>>]

\* run_cleanup_workflow: what it returns, the table, the AUTOINCREMENT
\* counter and the narrative-generator singleton it leaves, and its calls
run_cleanup_workflow(detections, location, notes, save_to_history, use_llm_enhancement, table, seq, clock, client, env) ==
    IF detections = <<>>
    THEN [ret |-> [detections |-> detections, plan |-> <<>>, report |-> <<>>,
                   event_id |-> NoneInt, boxes |-> NoneInt,
                   summary |-> NoTrashSummary, status |-> "no_trash"],
          events |-> table, sqlite_sequence |-> seq, client |-> client,
          trace |-> <<ToolCall("detect_trash_mcp", "", NoneInt)>>]
    ELSE WorkflowAfterPlan(
            detections, location, notes, save_to_history, table, seq, clock,
            plan_cleanup(detections, Joined(location), notes,
                         use_llm_enhancement, client, env))

\* what the detector finds in the image of a run: nothing, one item, five
\* items of four labels, or as many items as the model bounds
WorkflowDetections ==
    {MkDetections(0, 1, 1), MkDetections(1, 1, 1), MkDetections(5, 4, 4),
     MkDetections(MaxDetections, 7, 1)}

\* the location and the notes a run gives
WorkflowContexts ==
    {[location |-> NoLocation, notes |-> "None"],
     [location |-> <<"A", "b">>, notes |-> "near the playground"]}

\* a caller runs the workflow on one image
RunCleanupWorkflow ==
    /\ pc = "idle"
    /\ Len(events) < MaxEvents
    /\ \E detections \in WorkflowDetections, c \in WorkflowContexts,
          save_to_history \in BOOLEAN, use_llm_enhancement \in BOOLEAN :
         \E env \in EnvChoices(_llm_client, use_llm_enhancement) :
            \E w \in {run_cleanup_workflow(detections, c.location, c.notes,
                                            save_to_history,
                                            use_llm_enhancement, events,
                                            sqlite_sequence, now,
                                            _llm_client, env)} :
               /\ events' = w.events
               /\ sqlite_sequence' = w.sqlite_sequence
               /\ _llm_client' = w.client
               /\ issued' = IF TruthyInt(w.ret.event_id)
                            THEN Append(issued, w.ret.event_id[1])
                            ELSE issued
               /\ last' = [op |-> "run_cleanup_workflow",
                           args |-> [detections |-> detections,
                                     location |-> c.location,
                                     notes |-> c.notes,
                                     save_to_history |-> save_to_history,
                                     use_llm_enhancement |-> use_llm_enhancement],
                           ret |-> w.ret,
                           trace |-> w.trace]
               /\ now' = IF TruthyInt(w.ret.event_id) THEN now + 1 ELSE now
    /\ before' = events
    /\ pc' = "done"
    /\ UNCHANGED <<handlers, call, result>>

\* the caller is done with the result of the workflow
WorkflowReturn ==
    /\ pc = "done"
    /\ last.op = "run_cleanup_workflow"
    /\ pc' = "idle"
    /\ last' = NoStoreCall
    /\ before' = events
    /\ UNCHANGED <<handlers, plannerVars, events, sqlite_sequence, now, issued>>

WorkflowNext == RunCleanupWorkflow \/ WorkflowReturn

WorkflowSpec == Init /\ [][WorkflowNext]_vars

(***************************************************************************)
(* The MCP server (src/mcp_server.py).  The arguments of a tool call are a *)
(* function from the keys the client sent to their values.  The text       *)
(* call_tool returns is one of three templates with what it interpolates:  *)
(* kind "json" with the result of the tool, kind "unknown" or kind         *)
(* "error" with the name of the exception.                                 *)
(***************************************************************************)
\* arguments.get(key, default)
Get(arguments, key, default) ==
    IF key \in DOMAIN arguments THEN arguments[key] ELSE default

\* lines 251-254: json.dumps(result, indent=2)
JsonText(name, value) ==
    [kind |-> "json", text |-> "{json.dumps(result)}", name |-> name,
     error |-> "", result |-> <<value>>]

\* lines 245-248
UnknownToolText(name) ==
    [kind |-> "unknown", text |-> "Unknown tool: {name}", name |-> name,
     error |-> "", result |-> <<>>]

\* lines 256-260
ErrorText(name, e) ==
    [kind |-> "error", text |-> "Error executing {name}: {str(e)}",
     name |-> name, error |-> e, result |-> <<>>]

\* what a call leaves: the text, the table, the AUTOINCREMENT counter, the
\* narrative-generator singleton and the tools called
ToolOutcome(ret, table, seq, client, trace) ==
    [ret |-> ret, events |-> table, sqlite_sequence |-> seq,
     client |-> client, trace |-> trace]

\* trash_detection_tool.detect_trash_mcp on an image the detector finds
\* detections in
detect_trash_mcp(detections) ==
    [detections |-> detections, count |-> Len(detections),
     categories |-> CategoriesOf(detections),
     average_confidence |-> IF detections # <<>>
                            THEN SumScores(detections) \div Len(detections)
                            ELSE 0,
     summary |-> "Detected {n} trash items across {k} categories. ..."]

\* the result of a store tool as text: an exception raised inside the tool
\* is caught at line 256
StoreText(name, r) ==
    IF "exc" \in DOMAIN r THEN ErrorText(name, r.exc) ELSE JsonText(name, r)

\* line 206 with enhancement on unless the client turns it off
UseLlmArgument_DefaultOn(arguments) == Get(arguments, "use_llm", TRUE)

\* line 206: use_llm=arguments.get("use_llm", False)
UseLlmArgument(arguments) == Get(arguments, "use_llm", FALSE)

\* call_tool, lines 194-260: the outcomes a call can have
call_tool(name, arguments, table, seq, clock, client, env) ==
    LET missing(keys) == ~(keys \subseteq DOMAIN arguments)
        raised(e, trace) ==
            {ToolOutcome(ErrorText(name, e), table, seq, client, trace)}
    IN CASE name = "detect_trash" ->
              IF missing({"image_data"}) THEN raised("KeyError", <<>>)
              ELSE IF arguments.image_data # "image"
              THEN raised("ValueError", <<"detect_trash_mcp">>)
              ELSE {ToolOutcome(JsonText(name, detect_trash_mcp(d)), table,
                                seq, client, <<"detect_trash_mcp">>) :
                      d \in WorkflowDetections}
         [] name = "plan_cleanup" ->
              IF missing({"detections"}) THEN raised("KeyError", <<>>)
              ELSE LET p == plan_cleanup(arguments.detections,
                                         Get(arguments, "location", "None"),
                                         Get(arguments, "notes", "None"),
                                         UseLlmArgument(arguments),
                                         client, env)
                   IN {ToolOutcome(
                          JsonText(name, [plan |-> p.plan,
                                          llm_calls |-> p.llm_calls]),
                          table, seq, p.client, <<"plan_cleanup">>)}
         [] name = "log_event" ->
              IF missing({"detections", "severity"})
              THEN raised("KeyError", <<>>)
              ELSE LET l == log_event(_get_connection(table), seq, clock,
                                      arguments.detections, arguments.severity,
                                      Get(arguments, "location", NoLocation),
                                      Get(arguments, "notes", "None"))
                   IN {ToolOutcome(JsonText(name, l.ret), l.events,
                                   l.sqlite_sequence, client, <<"log_event">>)}
         [] name = "query_events" ->
              LET a == [days |-> Get(arguments, "days", NoneInt),
                        location |-> Get(arguments, "location", NoLocation),
                        severity |-> Get(arguments, "severity", "None"),
                        min_trash_count |-> NoneInt,
                        cleaned_only |-> FALSE,
                        limit |-> Get(arguments, "limit", DefaultLimit)]
              IN {ToolOutcome(
                     StoreText(name, query_events(_get_connection(table),
                                                  clock, a)),
                     _get_connection(table), seq, client, <<"query_events">>)}
         [] name = "get_hotspots" ->
              {ToolOutcome(StoreText(name, r), _get_connection(table), seq,
                           client, <<"get_hotspots">>) :
                 r \in get_hotspots(_get_connection(table), clock,
                                    Get(arguments, "min_events", DefaultMinEvents),
                                    Get(arguments, "days", Some(DefaultDays)))}
         [] name = "generate_report" ->
              IF missing({"detections", "severity"})
              THEN raised("KeyError", <<>>)
              ELSE {ToolOutcome(
                      JsonText(name,
                               generate_report(
                                  arguments.detections, arguments.severity,
                                  Get(arguments, "location", NoLocation),
                                  Get(arguments, "notes", "None"),
                                  NoneInt,
                                  Get(arguments, "plan", <<>>),
                                  Get(arguments, "format", "email"),
                                  clock)),
                      table, seq, client, <<"generate_report">>)}
         [] name = "mark_cleaned" ->
              IF missing({"event_id"}) THEN raised("KeyError", <<>>)
              ELSE LET m == mark_cleaned(_get_connection(table),
                                         arguments.event_id)
                   IN {ToolOutcome(JsonText(name, m.ret), m.events, seq,
                                   client, <<"mark_cleaned">>)}
         [] OTHER ->
              {ToolOutcome(UnknownToolText(name), table, seq, client, <<>>)}

\* the tool names a client sends: the seven tools and two names of no tool
ToolNames ==
    {"detect_trash", "plan_cleanup", "log_event", "query_events",
     "get_hotspots", "generate_report", "mark_cleaned", "delete_event", ""}

\* the detection lists a client sends
ClientDetections == {MkDetections(1, 1, 1), MkDetections(5, 4, 4)}

\* the arguments a client sends with a tool name: for a tool its required
\* keys alone, with optional keys, or without a required key; for a name of
\* no tool, what it would send to mark_cleaned
ToolArguments(name) ==
    CASE name = "detect_trash" ->
           {<<>>, [image_data |-> "image"], [image_data |-> "not an image"]}
      [] name = "plan_cleanup" ->
           {<<>>, [location |-> "Main St"]}
           \cup {[detections |-> d] : d \in ClientDetections}
           \cup {[detections |-> d, use_llm |-> u, notes |-> "near the playground"] :
                   d \in ClientDetections, u \in BOOLEAN}
      [] name = "log_event" ->
           {<<>>, [detections |-> MkDetections(1, 1, 1)]}
           \cup {[detections |-> d, severity |-> "low"] : d \in ClientDetections}
           \cup {[detections |-> d, severity |-> "high",
                  location |-> <<"A", "b">>] : d \in ClientDetections}
      [] name = "query_events" ->
           {<<>>, [limit |-> 1], [severity |-> "high"],
            [location |-> <<"A", "b">>]}
           \cup {[days |-> d] : d \in QueryDays}
      [] name = "get_hotspots" ->
           {<<>>, [min_events |-> 1]} \cup {[days |-> d] : d \in QueryDays}
      [] name = "generate_report" ->
           {<<>>, [severity |-> "low"]}
           \cup {[detections |-> d, severity |-> "low"] : d \in ClientDetections}
           \cup {[detections |-> d, severity |-> "high", format |-> f] :
                   d \in ClientDetections, f \in ReportFormats}
      [] OTHER ->
           {<<>>} \cup {[event_id |-> i] : i \in 1..(MaxEvents + 1)}

\* an MCP client calls a tool
CallTool ==
    /\ pc = "idle"
    /\ \E name \in ToolNames :
         \E arguments \in ToolArguments(name) :
            \E env \in EnvChoices(_llm_client,
                                  name = "plan_cleanup"
                                  /\ UseLlmArgument(arguments)) :
               \E o \in call_tool(name, arguments, events, sqlite_sequence,
                                  now, _llm_client, env) :
                  /\ Len(o.events) <= MaxEvents
                  /\ events' = o.events
                  /\ sqlite_sequence' = o.sqlite_sequence
                  /\ _llm_client' = o.client
                  /\ now' = IF Len(o.events) > Len(events) THEN now + 1 ELSE now
                  /\ issued' = IF Len(o.events) > Len(events)
                               THEN Append(issued, o.sqlite_sequence)
                               ELSE issued
                  /\ last' = [op |-> "call_tool",
                              args |-> [name |-> name, arguments |-> arguments],
                              ret |-> o.ret,
                              trace |-> o.trace]
    /\ before' = events
    /\ pc' = "done"
    /\ UNCHANGED <<handlers, call, result>>

\* the client has the text
CallToolReturn ==
    /\ pc = "done"
    /\ last.op = "call_tool"
    /\ pc' = "idle"
    /\ last' = NoStoreCall
    /\ before' = events
    /\ UNCHANGED <<handlers, plannerVars, events, sqlite_sequence, now, issued>>

McpNext == CallTool \/ CallToolReturn \/ Wait

McpSpec == Init /\ [][McpNext]_vars

(***************************************************************************)
(* The store under concurrent request handlers.  Each call opens its own   *)
(* connection (sqlite3.connect, line 21), so cursor.lastrowid and the      *)
(* rows a SELECT fetched are local to the handler.  SQLite lets one        *)
(* connection at a time write: the INSERT of line 91 opens a transaction   *)
(* and takes the write lock, waiting while another connection holds it,    *)
(* and conn.commit() of line 102 publishes the row and releases the lock.  *)
(* A SELECT reads the committed table.  A step of a handler is one         *)
(* statement.                                                              *)
(***************************************************************************)
\* the handler has run its INSERT and not yet its commit
HoldsWriteLock(hs, h) == hs[h].pc = "log_event:102"

\* the handlers that are inside log_event
InLogEvent(hs) ==
    {g \in DOMAIN hs : hs[g].pc \in {"log_event:91", "log_event:102"}}

\* an INSERT that waits for no lock
WriteLockFree_NoLock(hs, h) == TRUE

\* line 91: the INSERT waits for the write lock of the database
WriteLockFree(hs, h) == \A g \in DOMAIN hs : g # h => ~HoldsWriteLock(hs, g)

\* the arguments handlers give query_events: none, one severity, one
\* location
ConcurrentQueries ==
    {DefaultQuery, [DefaultQuery EXCEPT !.severity = "high"],
     [DefaultQuery EXCEPT !.location = <<"A", "b">>]}

\* log_event, lines 84-88: the handler connects and reads the clock
LogEventBegin(h) ==
    /\ handlers[h].pc = "idle"
    /\ Len(events) + Cardinality(InLogEvent(handlers)) < MaxEvents
    /\ \E u \in EventUploads, location \in EventLocations :
         handlers' = [handlers EXCEPT ![h] =
                        [pc |-> "log_event:91", op |-> "log_event",
                         args |-> [detections |-> u.detections,
                                   severity |-> u.severity,
                                   location |-> location, notes |-> u.notes],
                         timestamp |-> now]]
    /\ events' = _get_connection(events)
    /\ now' = now + 1
    /\ UNCHANGED <<pc, plannerVars, sqlite_sequence, last, before, issued>>

\* log_event, lines 91-101: the INSERT and cursor.lastrowid
LogEventInsert(h) ==
    /\ handlers[h].pc = "log_event:91"
    /\ WriteLockFree(handlers, h)
    /\ LET a == handlers[h].args
           r == log_event(events, sqlite_sequence, handlers[h].timestamp,
                          a.detections, a.severity, a.location, a.notes)
       IN handlers' = [handlers EXCEPT ![h] =
                         [pc |-> "log_event:102", op |-> "log_event",
                          args |-> a, timestamp |-> handlers[h].timestamp,
                          row |-> r.events[Len(r.events)],
                          ret |-> r.ret]]
    /\ UNCHANGED <<pc, plannerVars, storeVars>>

\* log_event, lines 102-109: commit, close and return
LogEventCommit(h) ==
    /\ handlers[h].pc = "log_event:102"
    /\ events' = Append(events, handlers[h].row)
    /\ sqlite_sequence' = MaxOf({sqlite_sequence, handlers[h].row.id})
    /\ issued' = Append(issued, handlers[h].ret.event_id)
    /\ handlers' = [handlers EXCEPT ![h] =
                      [pc |-> "returned", op |-> "log_event",
                       args |-> handlers[h].args, ret |-> handlers[h].ret]]
    /\ UNCHANGED <<pc, plannerVars, now, last, before>>

\* query_events, lines 137-179: the conditions and the SELECT of the events
QueryEventsSelect(h) ==
    /\ handlers[h].pc = "idle"
    /\ \E a \in ConcurrentQueries :
         handlers' = [handlers EXCEPT ![h] =
                        [pc |-> "query_events:184", op |-> "query_events",
                         args |-> a, clock |-> now,
                         selected |-> query_events(_get_connection(events),
                                                   now, a)]]
    /\ events' = _get_connection(events)
    /\ UNCHANGED <<pc, plannerVars, sqlite_sequence, now, last, before, issued>>

\* query_events, lines 184-208: the SELECT of the summary, close and return
QueryEventsSummary(h) ==
    /\ handlers[h].pc = "query_events:184"
    /\ LET q == query_events(events, handlers[h].clock, handlers[h].args)
       IN handlers' = [handlers EXCEPT ![h] =
                         [pc |-> "returned", op |-> "query_events",
                          args |-> handlers[h].args,
                          ret |-> [handlers[h].selected EXCEPT
                                      !.summary = q.summary]]]
    /\ UNCHANGED <<pc, plannerVars, storeVars>>

\* the caller of the handler has the result; the handler takes a new request
HandlerReturn(h) ==
    /\ handlers[h].pc = "returned"
    /\ handlers' = [handlers EXCEPT ![h] = IdleHandler]
    /\ UNCHANGED <<pc, plannerVars, storeVars>>

ConcurrentNext ==
    \E h \in Handlers :
       \/ LogEventBegin(h)
       \/ LogEventInsert(h)
       \/ LogEventCommit(h)
       \/ QueryEventsSelect(h)
       \/ QueryEventsSummary(h)
       \/ HandlerReturn(h)

ConcurrentSpec == Init /\ [][ConcurrentNext]_vars

(***************************************************************************)
(* Properties of plan_cleanup.  In a state with pc = "done", call holds    *)
(* the arguments of a call and result what it returned.                    *)
(***************************************************************************)
Returned == pc = "done"

N == Len(call.detections)

C == Cardinality(CategoriesOf(call.detections))

\* C1: a non-empty list is classified by the first matching rule, in the
\* order (N >= 15 or C >= 6): high, 1 day; (N >= 7 or C >= 4): medium, 3 days;
\* otherwise: low, 7 days.  15 items of 1 label and 14 items of 6 labels are
\* high, 7 items of 1 label medium, 6 items of 1 label low.
C1_SeverityFirstMatch ==
    (Returned /\ N >= 1) =>
        LET p == result.plan
            high == N >= 15 \/ C >= 6
            medium == ~high /\ (N >= 7 \/ C >= 4)
        IN /\ high => p.severity = "high" /\ p.urgency_days = 1
           /\ medium => p.severity = "medium" /\ p.urgency_days = 3
           /\ (~high /\ ~medium) => p.severity = "low" /\ p.urgency_days = 7
           /\ (N = 15 /\ C = 1) => p.severity = "high"
           /\ (N = 14 /\ C = 6) => p.severity = "high"
           /\ (N = 7 /\ C = 1) => p.severity = "medium"
           /\ (N = 6 /\ C = 1) => p.severity = "low"

\* 14 detections of 6 labels: the category rule alone makes the plan high
C1_Witness ==
    Returned /\ N = 14 /\ C = 6 /\ result.plan.severity = "high"

\* C2: the volunteers and the minutes of a non-empty list follow the formula
\* of the tier plan_cleanup chose, and are non-negative integers.
C2_TierFormulas ==
    (Returned /\ N >= 1) =>
        LET p == result.plan
        IN /\ p.severity \in {"high", "medium", "low"}
           /\ p.severity = "high" =>
                 /\ p.recommended_volunteers = 4 + (N \div 10)
                 /\ p.estimated_time_minutes = 90 + 3 * N
           /\ p.severity = "medium" =>
                 /\ p.recommended_volunteers = 2 + (N \div 8)
                 /\ p.estimated_time_minutes = 45 + 2 * N
           /\ p.severity = "low" =>
                 /\ p.recommended_volunteers = 1 + (N \div 5)
                 /\ p.estimated_time_minutes = 20 + 2 * N
           /\ p.recommended_volunteers \in Nat
           /\ p.estimated_time_minutes \in Nat

\* a medium plan whose quotient floor(N/8) is not zero
C2_Witness ==
    /\ Returned /\ N = 9
    /\ result.plan.severity = "medium"
    /\ result.plan.recommended_volunteers = 3
    /\ result.plan.estimated_time_minutes = 63

\* C3: an empty list gives the zero-plan without raising, whatever location,
\* notes and use_llm are, and no narrative generator is called.
C3_EmptyListZeroPlan ==
    (Returned /\ N = 0) =>
        /\ result.exc = "none"
        /\ result.plan.severity = "low"
        /\ result.plan.recommended_volunteers = 0
        /\ result.plan.estimated_time_minutes = 0
        /\ result.plan.equipment_needed = <<>>
        /\ result.plan.urgency_days = 0
        /\ result.llm_calls = 0
        /\ _llm_client = call.client

\* an empty list, with a location, notes and enhancement requested
C3_Witness ==
    /\ Returned /\ N = 0
    /\ call.use_llm /\ call.location # "None" /\ call.notes # "None"
    /\ result.plan.urgency_days = 0

\* The narrative generator failed in a call that requested enhancement for a
\* non-empty list: no client could be built (its constructor raised), the
\* client is the offline one (no provider, no API key or no SDK), or the
\* provider's API raised, timed out or gave an empty or malformed response.
GeneratorFailed ==
    /\ Returned /\ call.use_llm /\ N >= 1
    /\ \/ _llm_client \in {"None", "offline"}
       \/ call.env.api # "text"

\* the same call with use_llm = false
WithoutLLM ==
    plan_cleanup(call.detections, call.location, call.notes, FALSE,
                 call.client, call.env)

\* C4: when the generator fails, plan_cleanup raises nothing, returns the
\* severity, volunteers, minutes and equipment of the same call with
\* use_llm = false, and a non-empty action_summary.
C4_FailureKeepsPlanAndSummary ==
    GeneratorFailed =>
        /\ result.exc = "none"
        /\ result.plan.severity = WithoutLLM.plan.severity
        /\ result.plan.recommended_volunteers
              = WithoutLLM.plan.recommended_volunteers
        /\ result.plan.estimated_time_minutes
              = WithoutLLM.plan.estimated_time_minutes
        /\ result.plan.equipment_needed = WithoutLLM.plan.equipment_needed
        /\ Truthy(result.plan.action_summary)

\* C5: when the generator fails, missing credentials included, the
\* action_summary is the template render of the same call with use_llm = false.
C5_FailureFallsBackToTemplate ==
    GeneratorFailed =>
        result.plan.action_summary = WithoutLLM.plan.action_summary

\* the fields of a Plan that may depend on the detection list alone
Structural(p) ==
    [severity |-> p.severity,
     recommended_volunteers |-> p.recommended_volunteers,
     estimated_time_minutes |-> p.estimated_time_minutes,
     equipment_needed |-> p.equipment_needed,
     urgency_days |-> p.urgency_days,
     environmental_impact |-> p.environmental_impact]

\* the call on the same detections with no location, no notes, no enhancement
\* and no client built yet
ReferenceCall ==
    plan_cleanup(call.detections, "None", "None", FALSE, "None", DefaultEnv)

\* C6: the structural fields of the Plan depend on the detections alone, and
\* with use_llm = false so does the whole Plan.  Every call, whatever its
\* location, notes, use_llm and generator outcome, agrees with the reference
\* call on the same detections; so any two calls on the same detections agree
\* with each other.
C6_PlanDependsOnDetectionsOnly ==
    Returned =>
        /\ Structural(result.plan) = Structural(ReferenceCall.plan)
        /\ ~call.use_llm => result.plan = ReferenceCall.plan

\* an enhanced call with a location and notes whose narrative came from the
\* provider, and whose structural fields are those of the reference call
C6_Witness ==
    /\ Returned /\ N >= 1
    /\ call.use_llm /\ call.location # "None" /\ call.notes # "None"
    /\ result.plan.action_summary = Lit("<completion>")
    /\ result.plan.action_summary # ReferenceCall.plan.action_summary
    /\ Structural(result.plan) = Structural(ReferenceCall.plan)

\* labels that name glass
GlassLabels == {"broken_glass", "glass_bottle"}

BaseEquipment == <<"Heavy-duty trash bags", "Gloves", "Grabber tools">>

\* C7: the equipment of a non-empty list is the three base items, then
\* safety goggles and puncture-resistant bags iff some label names glass,
\* then the wheeled collection bin iff N > 10.
C7_EquipmentRules ==
    (Returned /\ N >= 1) =>
        result.plan.equipment_needed =
            BaseEquipment
            \o (IF CategoriesOf(call.detections) \cap GlassLabels # {}
                THEN <<"Safety goggles", "Puncture-resistant bags">> ELSE <<>>)
            \o (IF N > 10 THEN <<"Wheeled collection bin">> ELSE <<>>)

\* C8: no string occurs twice in equipment_needed.
C8_EquipmentNoDuplicates ==
    Returned =>
        LET eq == result.plan.equipment_needed
        IN \A i, j \in DOMAIN eq : eq[i] = eq[j] => i = j

\* more than ten detections, several of them glass bottles and other glass
C8_Witness ==
    /\ Returned /\ N > 10
    /\ GlassLabels \subseteq CategoriesOf(call.detections)
    /\ Cardinality({i \in DOMAIN call.detections :
                       call.detections[i].label = "glass_bottle"}) >= 2
    /\ Len(result.plan.equipment_needed) = 6

\* C9 as stated: every Plan has urgency_days >= 1.
C9_UrgencyPositive ==
    Returned => result.plan.urgency_days >= 1

\* C9 as amended: the Plan of a non-empty list has urgency_days 1, 3 or 7,
\* smaller for a more urgent tier (high 1, medium 3, low 7); the Plan of an
\* empty list has urgency_days 0.
C9_UrgencyPositiveIfNonEmpty ==
    Returned =>
        LET p == result.plan
        IN /\ N >= 1 => /\ p.urgency_days >= 1
                        /\ p.severity = "high" <=> p.urgency_days = 1
                        /\ p.severity = "medium" <=> p.urgency_days = 3
                        /\ p.severity = "low" <=> p.urgency_days = 7
           /\ N = 0 => p.urgency_days = 0

\* a high plan, to begin within one day
C9_Witness ==
    /\ Returned /\ N >= 1
    /\ result.plan.severity = "high" /\ result.plan.urgency_days = 1

\* severity, N, volunteers and minutes of the Plan of every detection list
PlanTable ==
    {LET p == plan_cleanup(d, "None", "None", FALSE, "None", DefaultEnv).plan
     IN [severity |-> p.severity, n |-> Len(d),
         volunteers |-> p.recommended_volunteers,
         minutes |-> p.estimated_time_minutes] : d \in DetectionLists \ {<<>>}}

\* C10: of two non-empty lists in the same tier, the one with the larger N has
\* at least as many volunteers and minutes.
C10_MonotoneWithinTier ==
    (Returned /\ N >= 1) =>
        \A t \in PlanTable :
            (t.severity = result.plan.severity /\ t.n >= N) =>
                /\ t.volunteers >= result.plan.recommended_volunteers
                /\ t.minutes >= result.plan.estimated_time_minutes

\* a high plan of 9 detections; PlanTable holds high plans of 10 and more
C10_Witness ==
    /\ Returned /\ N = 9 /\ result.plan.severity = "high"
    /\ \E t \in PlanTable :
          /\ t.severity = "high" /\ t.n = 10
          /\ t.volunteers > result.plan.recommended_volunteers

\* low < medium < high
TierRank(severity) ==
    CASE severity = "low" -> 1
      [] severity = "medium" -> 2
      [] severity = "high" -> 3

\* the Plan of the list of the call with one more detection, of label l
PlanOfAppended(l) ==
    plan_cleanup(Append(call.detections, [label |-> l, score |-> Scores[1]]),
                 "None", "None", FALSE, "None", DefaultEnv).plan

\* C28: one more detection on a non-empty list gives a tier that is not lower
\* and an urgency_days that is not larger; and the Plan of a higher tier has
\* at least the volunteers and the minutes of every Plan of a lower tier.
C28_MonotoneAcrossTiers ==
    (Returned /\ N >= 1) =>
        /\ \A l \in Labels :
              /\ TierRank(PlanOfAppended(l).severity)
                    >= TierRank(result.plan.severity)
              /\ PlanOfAppended(l).urgency_days <= result.plan.urgency_days
        /\ \A t \in PlanTable :
              TierRank(t.severity) > TierRank(result.plan.severity) =>
                  /\ t.volunteers >= result.plan.recommended_volunteers
                  /\ t.minutes >= result.plan.estimated_time_minutes
        /\ \A t \in PlanTable :
              TierRank(t.severity) < TierRank(result.plan.severity) =>
                  /\ t.volunteers <= result.plan.recommended_volunteers
                  /\ t.minutes <= result.plan.estimated_time_minutes

\* a low plan of 6 detections of 3 labels: a detection of a fourth label, or
\* of any label, makes it medium; a medium plan has as many volunteers
C28_Witness ==
    /\ Returned /\ N = 6 /\ C = 3
    /\ result.plan.severity = "low"
    /\ \A l \in Labels : PlanOfAppended(l).severity = "medium"
    /\ \E t \in PlanTable :
          /\ t.severity = "medium"
          /\ t.volunteers = result.plan.recommended_volunteers

(***************************************************************************)
(* Properties of the event store.  In a state with pc = "done" and         *)
(* last.op the name of a function, last holds the arguments of a call of   *)
(* it that returned and what it returned, before the table when the call   *)
(* began, and events the table it left.                                    *)
(***************************************************************************)
After(op) == pc = "done" /\ last.op = op /\ "exc" \notin DOMAIN last.ret

Ids(table) == {table[i].id : i \in DOMAIN table}

Min(a, b) == IF a < b THEN a ELSE b

\* the rows the WHERE clause of the call in last selects
Matching == {r \in Rows(events) : Where(r, last.args, now)}

\* text contains part as a run of characters, letter for letter
Contains(text, part) ==
    \E k \in 0..(Len(text) - Len(part)) :
        SubSeq(text, k + 1, k + Len(part)) = part

\* a stored location matches the location L: it is a text and contains L
MatchesLocation(row_location, L) ==
    row_location # NoLocation /\ Contains(row_location, L)

\* C11: every id log_event returns is an integer greater than every id it
\* returned earlier, so none is returned twice, and the stored events keep
\* the ids they were given: the i-th stored event holds the i-th id returned.
C11_IdsIncreaseAndStay ==
    /\ \A i \in DOMAIN issued : issued[i] \in Int
    /\ \A i, j \in DOMAIN issued : i < j => issued[i] < issued[j]
    /\ Len(events) = Len(issued)
    /\ \A i \in DOMAIN events : events[i].id = issued[i]

\* a second log_event has returned, after a mark_cleaned on the first event
C11_Witness ==
    /\ After("log_event")
    /\ Len(issued) = 2
    /\ events[1].cleaned

\* C12: where no other stored event has a location matching the text L,
\* log_event(detections, S, L) and then query_events(location = L) gives one
\* event: the id log_event returned, trash_count = len(detections),
\* categories the distinct labels, severity S, not cleaned.
C12_LogThenQueryByLocation ==
    (After("log_event") /\ last.args.location # NoLocation) =>
        LET L == last.args.location
            q == query_events(events, now, [DefaultQuery EXCEPT !.location = L])
        IN (\A r \in Rows(before) : ~MatchesLocation(r.location, L)) =>
              /\ Len(q.events) = 1
              /\ q.events[1].id = last.ret.event_id
              /\ q.events[1].trash_count = Len(last.args.detections)
              /\ q.events[1].categories = CategoriesOf(last.args.detections)
              /\ q.events[1].severity = last.args.severity
              /\ q.events[1].cleaned = FALSE

\* the rows that satisfy every filter the call in last supplies: days is
\* supplied when it is not None, 0 included; an empty location text is taken
\* as no location filter
SatisfyingSupplied ==
    LET a == last.args
    IN {r \in Rows(events) :
          /\ a.days # NoneInt => r.timestamp >= now - a.days[1]
          /\ TruthyLocation(a.location) =>
                LocationLike(r.location, a.location)
          /\ a.severity # "None" => r.severity = a.severity
          /\ a.min_trash_count # NoneInt =>
                r.trash_count >= a.min_trash_count[1]
          /\ a.cleaned_only => r.cleaned}

\* C13: query_events returns, up to limit, exactly the stored events that
\* satisfy every supplied filter: severity, min_trash_count, cleaned_only,
\* location, and days = N for every N, 0 included, as "timestamp within the
\* last N days"; a filter left out excludes nothing.
C13_ReturnsExactlyTheSatisfying ==
    After("query_events") =>
        LET returned == {last.ret.events[i].id : i \in DOMAIN last.ret.events}
            wanted == {r.id : r \in SatisfyingSupplied}
        IN /\ returned \subseteq wanted
           /\ Cardinality(returned) = Min(last.args.limit, Cardinality(wanted))

\* C14: with a location filter of at least one character alone, under the
\* default limit, an event is returned if and only if its location contains
\* the filter text letter for letter: not when it differs in case, not
\* through '%' or '_'.
C14_LocationLiteralSubstring ==
    (After("query_events") /\ Supplied(last.args) = {"location"}
        /\ last.args.location # <<>> /\ last.args.limit = DefaultLimit) =>
        {last.ret.events[i].id : i \in DOMAIN last.ret.events}
          = {r.id : r \in {x \in Rows(events) :
                             MatchesLocation(x.location, last.args.location)}}

\* C15: the summary counts the matching events, sums and averages their
\* trash_count and counts their distinct locations, over every matching event
\* whatever the limit: every limit gives the same summary.
C15_SummaryOverAllMatching ==
    After("query_events") =>
        LET s == last.ret.summary
            n == Cardinality(Matching)
        IN /\ s.total_events = n
           /\ s.total_trash_items
                = IF n = 0 THEN NoneInt ELSE Some(SumTrash(Matching))
           /\ s.avg_trash_per_event
                = IF n = 0 THEN <<>> ELSE <<SumTrash(Matching), n>>
           /\ s.unique_locations
                = Cardinality({r.location : r \in Matching} \ {NoLocation})
           /\ \A l \in QueryLimits \cup (0..MaxEvents) :
                 query_events(events, now,
                              [last.args EXCEPT !.limit = l]).summary = s

\* a query under limit 1 that two events match
C15_Witness ==
    /\ After("query_events")
    /\ last.args.limit = 1
    /\ Cardinality(Matching) = 2
    /\ last.ret.summary.total_events = 2

\* C16: total_count is the number of stored events matching the filters and
\* equals summary.total_events, also when more events match than limit.
C16_TotalCountIsAllMatching ==
    After("query_events") =>
        /\ last.ret.total_count = Cardinality(Matching)
        /\ last.ret.total_count = last.ret.summary.total_events

C18_HotspotsGroupFilterSort ==
    After("get_hotspots") =>
        LET a == last.args
            hs == last.ret.hotspots
            inside == {r \in Rows(events) :
                         /\ r.location # NoLocation
                         /\ (a.days_given /\ a.days # NoneInt) =>
                               r.timestamp >= now - a.days[1]}
            group(l) == {r \in inside : r.location = l}
            wanted == {l \in {r.location : r \in inside} :
                         Cardinality(group(l)) >= a.min_events}
        IN /\ {hs[i].location : i \in DOMAIN hs} = wanted
           /\ Len(hs) = Cardinality(wanted)
           /\ \A i \in DOMAIN hs :
                 /\ hs[i].event_count = Cardinality(group(hs[i].location))
                 /\ hs[i].total_trash = SumTrash(group(hs[i].location))
           /\ \A i, j \in DOMAIN hs :
                 i < j => \/ hs[i].event_count > hs[j].event_count
                          \/ /\ hs[i].event_count = hs[j].event_count
                             /\ hs[i].total_trash >= hs[j].total_trash

\* C19: mark_cleaned with an id no stored event has tells its caller so, by
\* something other than the acknowledgement of a success, and leaves every
\* stored event as it was.
C19_UnknownIdSignalsNotFound ==
    (After("mark_cleaned") /\ last.args.event_id \notin Ids(before)) =>
        /\ last.ret.message # "Event {event_id} marked as cleaned"
        /\ events = before

Step(op) == pc = "idle" /\ pc' = "done" /\ last'.op = op

\* C21: no step deletes a stored event; the cleaned flag of an event is false
\* when the event is stored, changes only in a mark_cleaned on the id of the
\* event, and never goes back from true to false; the number of stored
\* events grows by one in a log_event and stays in every other step.
C21_EventLifecycle ==
    [][/\ Len(events') >= Len(events)
       /\ \A i \in DOMAIN events :
             /\ events'[i].id = events[i].id
             /\ events[i].cleaned => events'[i].cleaned
             /\ events'[i].cleaned # events[i].cleaned =>
                   Step("mark_cleaned") /\ last'.args.event_id = events[i].id
       /\ \A i \in DOMAIN events' \ DOMAIN events : ~events'[i].cleaned
       /\ Len(events') = Len(events) + (IF Step("log_event") THEN 1 ELSE 0)]_vars

\* mark_cleaned has marked the second of two events and left the first unmarked
C21_Witness ==
    /\ After("mark_cleaned")
    /\ Len(events) = 2
    /\ ~before[2].cleaned /\ events[2].cleaned
    /\ ~events[1].cleaned

\* what log_event writes of an event besides its id and its cleaned flag
InsertedFields(row) ==
    [timestamp |-> row.timestamp, location |-> row.location,
     severity |-> row.severity, trash_count |-> row.trash_count,
     categories |-> row.categories, detections |-> row.detections,
     notes |-> row.notes]

\* C22: no step changes the timestamp, location, severity, trash_count,
\* categories, detection list or notes of a stored event, and a
\* mark_cleaned(id) changes nothing but the cleaned flag of the event id.
C22_InsertedFieldsFrozen ==
    [][/\ Len(events') >= Len(events)
       /\ \A i \in DOMAIN events :
             /\ InsertedFields(events'[i]) = InsertedFields(events[i])
             /\ Step("mark_cleaned") =>
                   /\ events'[i].id = events[i].id
                   /\ events[i].id # last'.args.event_id =>
                         events'[i] = events[i]
       /\ Step("mark_cleaned") => Len(events') = Len(events)]_vars

\* mark_cleaned has marked the first of two events; the second is as it was
C22_Witness ==
    /\ After("mark_cleaned")
    /\ Len(events) = 2
    /\ last.args.event_id = events[1].id
    /\ ~before[1].cleaned /\ events[1].cleaned
    /\ events[2] = before[2]
    /\ events[2].notes # "None"

\* the call of the step returned what query_events returns
ValidEvents ==
    /\ DOMAIN last'.ret = {"events", "total_count", "summary", "filters_applied"}
    /\ last'.ret.total_count = Len(last'.ret.events)
    /\ last'.ret.summary.total_events \in 0..Len(events)

\* the call of the step returned what get_hotspots returns
ValidHotspots ==
    /\ DOMAIN last'.ret = {"hotspots", "count", "criteria"}
    /\ last'.ret.count = Len(last'.ret.hotspots)

CountOf(label, detections) ==
    Cardinality({i \in DOMAIN detections : detections[i].label = label})

\* the line shows the label, as the report writes a label, with the number n
ShowsCount(line, label, n) == line.s = Title(label) /\ line.n = n

\* the per-category breakdown of a report: its lines that show a label
Breakdown(report) ==
    SelectSeq(report, LAMBDA line : \E l \in Labels : line.s = Title(l))

\* the label a breakdown line shows
LabelOf(line) == CHOOSE l \in Labels : Title(l) = line.s

CountDescending(lines) ==
    \A i, j \in DOMAIN lines : i < j => lines[i].n >= lines[j].n

Alphabetical(lines) ==
    \A i, j \in DOMAIN lines :
       i < j => Rank(LabelOf(lines[i])) < Rank(LabelOf(lines[j]))

\* C25: the report of each style (email, markdown, plain, and plain under
\* any other format name) has, for every distinct label of the detection
\* list, a line that shows that label with the number of its detections.
C25_EveryLabelCountInEveryStyle ==
    After("generate_report") =>
        \A label \in CategoriesOf(last.args.detections) :
           \E i \in DOMAIN last.ret.report :
              ShowsCount(last.ret.report[i], label,
                         CountOf(label, last.args.detections))

\* a report of each of the three styles was made of a list with five
\* detections of four labels, one label twice
C25_Styles == {"email", "markdown", "plain"}

C25_Witness ==
    /\ After("generate_report")
    /\ Len(last.args.detections) = 5
    /\ Cardinality(CategoriesOf(last.args.detections)) = 4
    /\ last.args.format \in C25_Styles
    /\ \E i \in DOMAIN last.ret.report : last.ret.report[i].n = 2
                                         /\ last.ret.report[i].s # ""

\* C26: the breakdown lists the labels by count descending in the markdown
\* style and in the plain style, and alphabetically by label in the email
\* style.
C26_BreakdownOrder ==
    After("generate_report") =>
        /\ last.args.format \in {"markdown", "plain"} =>
              CountDescending(Breakdown(last.ret.report))
        /\ last.args.format = "email" =>
              Alphabetical(Breakdown(last.ret.report))

(***************************************************************************)
(* Properties of the workflow.  After run_cleanup_workflow, last holds the *)
(* arguments of the run, the detections among them, what it returned and   *)
(* the trace of its calls; before holds the table when the run began.      *)
(***************************************************************************)
\* the names of the calls of a trace, in order
FnsOf(trace) == [i \in DOMAIN trace |-> trace[i].fn]

\* the calls of a trace to one function
CallsTo(trace, fn) == SelectSeq(trace, LAMBDA c : c.fn = fn)

\* C27: a run calls detect, plan, store insert and report in that order,
\* log_event at most once and once exactly when save_to_history is true and
\* the detector found something; the stored event carries the severity of
\* the plan of this run and the detections of this run, the event_id
\* returned and passed to the report is the id of that event; a run that
\* finds nothing stores nothing and returns status no_trash with plan,
\* report and event_id null.
C27_WorkflowOrderAndStore ==
    After("run_cleanup_workflow") =>
        LET a == last.args
            ret == last.ret
            logged == a.save_to_history /\ a.detections # <<>>
        IN /\ FnsOf(last.trace) \in
                {<<"detect_trash_mcp">>,
                 <<"detect_trash_mcp", "plan_cleanup", "generate_report">>,
                 <<"detect_trash_mcp", "plan_cleanup", "log_event",
                   "generate_report">>}
           /\ Len(CallsTo(last.trace, "log_event")) = (IF logged THEN 1 ELSE 0)
           /\ logged =>
                 /\ Len(events) = Len(before) + 1
                 /\ SubSeq(events, 1, Len(before)) = before
                 /\ events[Len(events)].severity = ret.plan[1].severity
                 /\ events[Len(events)].detections = a.detections
                 /\ ret.event_id = Some(events[Len(events)].id)
                 /\ CallsTo(last.trace, "log_event")[1].severity
                       = ret.plan[1].severity
           /\ ~logged => events = before /\ ret.event_id = NoneInt
           /\ a.detections # <<>> =>
                 /\ ret.status = "success"
                 /\ CallsTo(last.trace, "generate_report")[1].event_id
                       = ret.event_id
           /\ a.detections = <<>> =>
                 /\ ret.status = "no_trash"
                 /\ ret.plan = <<>>
                 /\ ret.report = <<>>
                 /\ ret.event_id = NoneInt

\* a run stored a high-severity event after an earlier run had stored one
C27_Witness ==
    /\ After("run_cleanup_workflow")
    /\ last.args.save_to_history
    /\ Len(before) = 1
    /\ Len(events) = 2
    /\ events[2].severity = "high"
    /\ last.ret.event_id = Some(2)

(***************************************************************************)
(* Properties of the MCP server.  After call_tool, last holds the tool     *)
(* name and the arguments, the text returned and the tools called.         *)
(***************************************************************************)
CalledTool == pc = "done" /\ last.op = "call_tool"

\* the keys a tool reads with arguments[key]
RequiredKeys(name) ==
    CASE name = "detect_trash" -> {"image_data"}
      [] name \in {"plan_cleanup"} -> {"detections"}
      [] name \in {"log_event", "generate_report"} -> {"detections", "severity"}
      [] name = "mark_cleaned" -> {"event_id"}
      [] OTHER -> {}

KnownTools ==
    {"detect_trash", "plan_cleanup", "log_event", "query_events",
     "get_hotspots", "generate_report", "mark_cleaned"}

\* C30: call_tool returns a text for every tool name and arguments: for a
\* name of no tool the text 'Unknown tool', with no tool called and the
\* stored events as they were; for a call without a required argument, or
\* whose tool raises, an 'Error executing' text; and plan_cleanup called
\* without use_llm makes no call to a narrative generator and returns the
\* rule-based plan.
C30_CallToolReturnsText ==
    CalledTool =>
        LET name == last.args.name
            arguments == last.args.arguments
        IN /\ last.ret.kind \in {"json", "unknown", "error"}
           /\ last.ret.kind = "unknown" <=> name \notin KnownTools
           /\ name \notin KnownTools =>
                 /\ last.trace = <<>>
                 /\ events = before
           /\ ~(RequiredKeys(name) \subseteq DOMAIN arguments) =>
                 /\ last.ret.kind = "error"
                 /\ last.ret.error = "KeyError"
                 /\ events = before
           /\ (name \in {"query_events", "get_hotspots"}
               /\ DateOverflow(now, Get(arguments, "days", NoneInt))) =>
                 /\ last.ret.kind = "error"
                 /\ last.ret.error = "OverflowError"
                 /\ events = before
           /\ (name = "detect_trash"
               /\ Get(arguments, "image_data", "image") # "image") =>
                 last.ret.kind = "error"
           /\ last.ret.kind = "json" => last.ret.result # <<>>
           /\ (name = "plan_cleanup" /\ "detections" \in DOMAIN arguments
               /\ "use_llm" \notin DOMAIN arguments) =>
                 /\ last.ret.kind = "json"
                 /\ last.ret.result[1].llm_calls = 0
                 /\ last.ret.result[1].plan = BasePlan(arguments.detections)

\* mark_cleaned was sent to a name of no tool while the store held an
\* uncleaned event with the id given
C30_Witness ==
    /\ CalledTool
    /\ last.args.name = "delete_event"
    /\ last.ret.kind = "unknown"
    /\ "event_id" \in DOMAIN last.args.arguments
    /\ \E i \in DOMAIN events : /\ events[i].id = last.args.arguments.event_id
                                /\ ~events[i].cleaned

(***************************************************************************)
(* Properties of the store under concurrent handlers.  A handler with      *)
(* pc = "returned" holds the arguments of its call and what it returned.   *)
(***************************************************************************)
ReturnedFrom(h, op) == handlers[h].pc = "returned" /\ handlers[h].op = op

\* the rows of the table with the id
RowsWithId(id) == {i \in DOMAIN events : events[i].id = id}

C24_QueryAtomic ==
    \A h \in Handlers :
       (ReturnedFrom(h, "query_events")
        /\ Len(handlers[h].ret.events) < handlers[h].args.limit) =>
          /\ handlers[h].ret.summary.total_events = Len(handlers[h].ret.events)
          /\ handlers[h].ret.summary.total_trash_items =
                (IF handlers[h].ret.events = <<>> THEN NoneInt
                 ELSE Some(SumTrash({handlers[h].ret.events[i] :
                                       i \in DOMAIN handlers[h].ret.events})))

====
